---- MODULE Spec2Model ----
(***************************************************************************)
(* MeaningMemory V3-L: the memory engine as a state machine.               *)
(*                                                                         *)
(* The committed database is the tables memory_units, preferences,         *)
(* entities, memory_relations and contradictions.  insertMemoryUnit is a   *)
(* process that holds one connection ("client") inside BEGIN..COMMIT and   *)
(* suspends at every await; the helper modules it calls (contradiction     *)
(* detector, entity resolver, graph retrieval, decay service) run their    *)
(* queries on their own pools, i.e. on other connections in autocommit     *)
(* mode, which see committed rows only and whose writes are durable at     *)
(* once.                                                                   *)
(*                                                                         *)
(* Numbers: confidences, strengths, similarities and relation weights are  *)
(* in hundredths (0.85 is 85); importances are in thousandths (5.0 is      *)
(* 5000); time is in whole days.  A null id is 0, a null timestamp is -1.  *)
(***************************************************************************)
EXTENDS Integers, Sequences, FiniteSets, TLC

\* ------------------------------------------------------------------------
\* Bounds of the model
\* ------------------------------------------------------------------------
MaxMem == 2

MaxContra == 1

MaxAccess == 1

\* the last day of the clock, and the step that carries a memory past the
\* archival age
MaxDay == 91

ArchiveStep == 91

\* ------------------------------------------------------------------------
\* Program constants
\* ------------------------------------------------------------------------
RETRIEVAL_K == 5

SPREADING_DEPTH == 2

SPREADING_DECAY == 50

IDENTITY_LIMIT == 5

SIMILAR_LIMIT == 10

CONTRADICTION_THRESHOLD == 75

POTENTIAL_UPDATE_SIMILARITY == 85

CONFIDENCE_GAP == 20

EXPLICIT_RELATION_WEIGHT == 80

DISCOVER_MIN_WEIGHT == 30

IMPORTANCE_FLOOR == 1000

REINFORCEMENT_BONUS == 300

REINFORCEMENT_WINDOW_DAYS == 7

ACCESS_CAP == 10

NULL_ACCESS_DAYS == 999

ARCHIVE_THRESHOLD == 1500

ARCHIVE_MAX_AGE_DAYS == 90

NoId == 0

NoTime == 0 - 1

\* ------------------------------------------------------------------------
\* Small helpers
\* ------------------------------------------------------------------------
Max(a, b) == IF a >= b THEN a ELSE b

Min(a, b) == IF a <= b THEN a ELSE b

Abs(a) == IF a >= 0 THEN a ELSE 0 - a

Range(f) == {f[x] : x \in DOMAIN f}

RECURSIVE SetToSeq(_)
\* the elements of a finite set of integers in ascending order
SetToSeq(S) ==
  IF S = {} THEN << >>
  ELSE LET m == CHOOSE x \in S : \A y \in S : x <= y
       IN <<m>> \o SetToSeq(S \ {m})

\* the n largest elements of a finite set of integers (ORDER BY ... DESC LIMIT n,
\* with row ids standing for created_at order)
RECURSIVE TopN(_, _)
TopN(S, n) ==
  IF S = {} \/ n <= 0 THEN {}
  ELSE LET m == CHOOSE x \in S : \A y \in S : x >= y
       IN {m} \cup TopN(S \ {m}, n - 1)

\* ------------------------------------------------------------------------
\* Belief tiering (beliefTiering.js)
\* ------------------------------------------------------------------------
Tiers == {"asserted_fact", "observed_fact", "preference", "hypothesis", "temporary_context"}

\* TIERS[tier].floor
TierFloor(tier) ==
  CASE tier = "asserted_fact" -> 90
    [] tier = "observed_fact" -> 80
    [] tier = "preference" -> 75
    [] tier = "hypothesis" -> 30
    [] tier = "temporary_context" -> 40

\* TIERS[tier].ceiling; only hypothesis defines one, the other tiers are
\* limited by the [0,1] range of a confidence
TierCeiling(tier) == IF tier = "hypothesis" THEN 50 ELSE 100

HasCeiling(tier) == tier = "hypothesis"

\* enforceConfidenceBounds without its ceiling branch
EnforceFloorOnly(tier, confidence) ==
  IF tier \notin Tiers THEN confidence ELSE Max(confidence, TierFloor(tier))

\* enforceConfidenceBounds(tier, confidence)
EnforceConfidenceBounds(tier, confidence) ==
  IF tier \notin Tiers THEN confidence
  ELSE LET bounded == Max(confidence, TierFloor(tier))
       IN IF HasCeiling(tier) THEN Min(bounded, TierCeiling(tier)) ELSE bounded

\* getTierPriority(tier)
GetTierPriority(tier) ==
  CASE tier = "asserted_fact" -> 5
    [] tier = "observed_fact" -> 4
    [] tier = "preference" -> 3
    [] tier = "hypothesis" -> 2
    [] tier = "temporary_context" -> 1
    [] OTHER -> 0

\* ------------------------------------------------------------------------
\* Text: the mentions and summaries of the model, and what the program's
\* regular expressions, LOWER() and the embedder make of them
\* ------------------------------------------------------------------------
Mentions == {"Costa", "costa", "COSTA", "Alex", "alex", "Al", "al", "coffee", "2 cats"}

\* String.prototype.toLowerCase / SQL LOWER()
Lower(m) ==
  CASE m = "Costa" -> "costa"
    [] m = "COSTA" -> "costa"
    [] m = "Alex" -> "alex"
    [] m = "Al" -> "al"
    [] OTHER -> m

\* mention[0] === mention[0].toUpperCase(): true of an uppercase letter and of
\* a character that has no case, such as the digit of "2 cats"
IsCapitalised(m) == m \in {"Costa", "COSTA", "Alex", "Al", "2 cats"}

NameCosta == "User's name is Costa."

NameAlex == "User's name is Alex."

LikesCoffee == "User likes coffee."

DislikesCoffee == "User dislikes coffee."

Summaries == {NameCosta, NameAlex, LikesCoffee, DislikesCoffee}

\* extractUserName(memory): the first IDENTITY_PATTERNS match on summary and
\* facts that is not a skip word; "none" is null
ExtractUserName(summary) ==
  CASE summary = NameCosta -> "Costa"
    [] summary = NameAlex -> "Alex"
    [] OTHER -> "none"

\* the WHERE clause of the identity query: summary or facts ILIKE
\* '%name is%' / '%I am%' / '%introduces%'
IdentityQueryMatches(summary) == summary \in {NameCosta, NameAlex}

\* 1 - (embedding <=> embedding'): cosine similarity of the embedder's
\* vectors of two summaries, in hundredths.  The embedder is external; the
\* model fixes one value per pair: identical text 100, the two name
\* sentences 80, the two coffee sentences 90, unrelated text 40.
Similarity(a, b) ==
  CASE a = b -> 100
    [] {a, b} = {NameCosta, NameAlex} -> 80
    [] {a, b} = {LikesCoffee, DislikesCoffee} -> 90
    [] OTHER -> 40

\* ------------------------------------------------------------------------
\* Contradiction analysis (contradictionDetector.js), pure part
\* ------------------------------------------------------------------------
\* determineResolution with the tier rule tried before the temporal one
DetermineResolutionTierFirst(newTier, newConfidence, exTier, exConfidence, newTemporal, exTemporal) ==
  LET newConf == IF newConfidence = 0 THEN 50 ELSE newConfidence
      existingConf == IF exConfidence = 0 THEN 50 ELSE exConfidence
  IN IF GetTierPriority(newTier) > GetTierPriority(exTier) THEN "a_supersedes"
     ELSE IF GetTierPriority(exTier) > GetTierPriority(newTier) THEN "b_supersedes"
     ELSE IF newTemporal = "current" /\ exTemporal = "past" THEN "a_supersedes"
     ELSE IF Abs(newConf - existingConf) > CONFIDENCE_GAP
          THEN (IF newConf > existingConf THEN "a_supersedes" ELSE "b_supersedes")
     ELSE "pending"

\* determineResolution(newMemory, existingMemory, newFact, existingFact):
\* the action of the first rule that applies; a missing fact has temporal
\* "none"
DetermineResolution(newTier, newConfidence, exTier, exConfidence, newTemporal, exTemporal) ==
  LET newConf == IF newConfidence = 0 THEN 50 ELSE newConfidence
      existingConf == IF exConfidence = 0 THEN 50 ELSE exConfidence
  IN IF newTemporal = "current" /\ exTemporal = "past" THEN "a_supersedes"
     ELSE IF GetTierPriority(newTier) > GetTierPriority(exTier) THEN "a_supersedes"
     ELSE IF GetTierPriority(exTier) > GetTierPriority(newTier) THEN "b_supersedes"
     ELSE IF Abs(newConf - existingConf) > CONFIDENCE_GAP
          THEN (IF newConf > existingConf THEN "a_supersedes" ELSE "b_supersedes")
     ELSE "pending"

\* the (i, j) pairs of structured facts with the same subject and predicate
\* and a different object, in the order the nested loops visit them
FactConflictPairs(newFacts, exFacts) ==
  {p \in (DOMAIN newFacts) \X (DOMAIN exFacts) :
      /\ newFacts[p[1]].subject = exFacts[p[2]].subject
      /\ newFacts[p[1]].predicate = exFacts[p[2]].predicate
      /\ newFacts[p[1]].object # exFacts[p[2]].object}

\* the pair the loops visit last: its resolution is the one that is kept
LastPair(P) ==
  CHOOSE p \in P : \A q \in P : q[1] < p[1] \/ (q[1] = p[1] /\ q[2] <= p[2])

\* analyzeConflict(newMemory, existingMemory): "none" when it is no
\* contradiction, else the action of the resolution it suggests
AnalyzeConflict(new, ex, similarity) ==
  LET pairs == FactConflictPairs(new.structured_facts, ex.structured_facts)
      entityOverlap == {Lower(new.entities[i]) : i \in DOMAIN new.entities}
                         \cap {Lower(ex.entities[i]) : i \in DOMAIN ex.entities}
  IN IF pairs # {}
       THEN LET p == LastPair(pairs)
            IN DetermineResolution(new.tier, new.confidence, ex.tier, ex.confidence,
                                   new.structured_facts[p[1]].temporal,
                                   ex.structured_facts[p[2]].temporal)
     ELSE IF entityOverlap # {} /\ similarity > POTENTIAL_UPDATE_SIMILARITY
             /\ new.summary # ex.summary
       THEN DetermineResolution(new.tier, new.confidence, ex.tier, ex.confidence,
                                "none", "none")
     ELSE "none"

\* ------------------------------------------------------------------------
\* Decay (schema.sql calculate_decayed_importance, decayService.js)
\* ------------------------------------------------------------------------
\* 10000 * EXP(-0.05 * d) for d = 0..14 days (DECAY_RATE = 0.05)
ExpTable == <<10000, 9512, 9048, 8607, 8187, 7788, 7408, 7047, 6703, 6376, 6065,
              5769, 5488, 5220, 4966>>

\* 10000 * EXP(-decay_rate * days); beyond the table by exp(a+b) = exp(a)exp(b)
RECURSIVE ExpNeg(_)
ExpNeg(days) ==
  IF days <= 14 THEN ExpTable[days + 1]
  ELSE (ExpNeg(days - 14) * ExpTable[15]) \div 10000

\* decayService.js calculateDecayedImportance(memory) at Date.now() = nowT:
\* the decay runs over the days since created_at, and a memory never accessed
\* counts as last accessed when it was created
CalculateDecayedImportanceFromCreation(base_imp, created, last_decay, access_cnt, last_access, nowT) ==
  LET days_since_access == IF last_access = NoTime THEN nowT - created ELSE nowT - last_access
      decayed == (base_imp * ExpNeg(nowT - created)) \div 10000
      reinforcement ==
        IF days_since_access < REINFORCEMENT_WINDOW_DAYS
        THEN (REINFORCEMENT_BONUS * Min(access_cnt, ACCESS_CAP)
                * (REINFORCEMENT_WINDOW_DAYS - days_since_access)) \div REINFORCEMENT_WINDOW_DAYS
        ELSE 0
  IN Max(decayed + reinforcement, IMPORTANCE_FLOOR)

\* the function without its GREATEST(..., floor_val)
CalculateDecayedImportanceUnfloored(base_imp, created, last_decay, access_cnt, last_access, nowT) ==
  (base_imp * ExpNeg(nowT - last_decay)) \div 10000

\* calculate_decayed_importance(base_imp, last_decay, access_cnt, last_access,
\* decay_rate, reinforce_bonus, floor_val) evaluated at NOW() = nowT; the
\* created argument is the row's created_at, which the function does not read
CalculateDecayedImportance(base_imp, created, last_decay, access_cnt, last_access, nowT) ==
  LET days_since_decay == nowT - last_decay
      days_since_access == IF last_access = NoTime THEN NULL_ACCESS_DAYS ELSE nowT - last_access
      decayed == (base_imp * ExpNeg(days_since_decay)) \div 10000
      reinforcement ==
        IF days_since_access < REINFORCEMENT_WINDOW_DAYS
        THEN (REINFORCEMENT_BONUS * Min(access_cnt, ACCESS_CAP)
                * (REINFORCEMENT_WINDOW_DAYS - days_since_access)) \div REINFORCEMENT_WINDOW_DAYS
        ELSE 0
  IN Max(decayed + reinforcement, IMPORTANCE_FLOOR)

\* ------------------------------------------------------------------------
\* Memory proposals
\* ------------------------------------------------------------------------
Fact(subject, predicate, object, temporal) ==
  [subject |-> subject, predicate |-> predicate, object |-> object, temporal |-> temporal]

\* no conversation id: req.body.conversation_id undefined, the column NULL
NoConversation == ""

Pref(entity, valence, strength) ==
  [entity |-> entity, valence |-> valence, strength |-> strength]

Proposal(summary, tier, confidence, entities, sfacts, prefs, links, importance) ==
  [summary |-> summary, tier |-> tier, confidence |-> confidence, entities |-> entities,
   structured_facts |-> sfacts, preferences |-> prefs, entity_links |-> links,
   related_to |-> {}, supersedes |-> {}, importance |-> importance,
   source_conversation_id |-> NoConversation]

NoProposal == Proposal("", "none", 0, << >>, << >>, << >>, << >>, 0)

\* extractAndStoreInstant, name branch: the memory built for a NAME_PATTERNS match
InstantNameMem(name) ==
  Proposal(IF name = "Costa" THEN NameCosta ELSE NameAlex,
           "asserted_fact", 95, <<name>>, << >>, << >>, << >>, 8)

\* extractAndStoreInstant, preference branch: the memory built for a
\* PREFERENCE_PATTERNS match
InstantPrefMem(entity, valence, strength) ==
  Proposal(IF valence = "positive" THEN LikesCoffee ELSE DislikesCoffee,
           "preference", 85, <<entity>>, << >>, <<Pref(entity, valence, strength)>>, << >>, 6)

\* the memories extractAndStoreInstant can build from the messages of the model:
\* "My name is Costa", "My name is Alex", "I love coffee", "I hate coffee"
InstantProposals ==
  {InstantNameMem("Costa"), InstantNameMem("Alex"),
   InstantPrefMem("coffee", "positive", 90), InstantPrefMem("coffee", "negative", 90)}

\* payloads of the external extractor, after JSON.parse and sanitizeLLMResponse:
\* a hedged guess that overstates its confidence
GuessPayload ==
  Proposal(LikesCoffee, "hypothesis", 90, <<"coffee">>,
           <<Fact("user", "drinks_coffee", "yes", "past")>>, << >>, << >>, 5)

\* an assertion that contradicts a stored preference
CorrectionPayload ==
  Proposal(DislikesCoffee, "asserted_fact", 95, <<"coffee">>,
           <<Fact("user", "drinks_coffee", "no", "current")>>,
           <<Pref("coffee", "negative", 80)>>, << >>, 7)

\* a name with an explicit entity link
LinkedNamePayload ==
  Proposal(NameAlex, "asserted_fact", 92, <<"Alex">>, << >>, << >>,
           <<[mention |-> "Alex", canonical |-> "Alex"]>>, 8)

ExtractorPayloads == {GuessPayload, CorrectionPayload, LinkedNamePayload}

\* parseMemoryAgentResponse on a payload the schema accepts:
\* data.confidence = enforceConfidenceBounds(data.tier, data.confidence)
ParseMemoryAgentResponse(payload) ==
  [payload EXCEPT !.confidence = EnforceConfidenceBounds(payload.tier, payload.confidence)]

\* ------------------------------------------------------------------------
\* State
\* ------------------------------------------------------------------------
VARIABLES
  now,               \* NOW(), in days
  nextId,            \* the next memory id to hand out (ids follow created_at)
  memory_units,      \* committed rows of memory_units, by id
  preferences,       \* committed rows of preferences, in insertion order
  entities,          \* rows of entities, by id
  nextEnt,           \* the next entity id to hand out
  memory_relations,  \* rows of memory_relations
  contradictions,    \* rows of contradictions, in insertion order
  tx,                \* the insertMemoryUnit calls in flight, by slot
  rc,                \* the resolveContradiction call in flight
  rt,                \* the retrieveMemories call in flight
  turn,              \* the POST /chat handler
  res,               \* the HTTP response of each turn
  bg,                \* processMemoryAsync of each turn
  mg,                \* the mergeEntities call in flight
  decay_log,         \* rows of decay_log, in insertion order
  embedder,          \* embeddings.js: the module's state and its callers
  fn                 \* the call of a helper function in flight: arguments and return value

vars == <<now, nextId, memory_units, preferences, entities, nextEnt, memory_relations,
          contradictions, tx, rc, rt, turn, res, bg, mg, decay_log, embedder, fn>>

\* the variables an insertMemoryUnit step never touches
nonTx == <<rc, rt, turn, res, bg, mg, decay_log, embedder, fn>>

\* the variables a resolveContradiction step never touches
nonRc == <<tx, rt, turn, res, bg, mg, decay_log, embedder, fn>>

\* the variables a retrieveMemories step never touches
nonRt == <<tx, rc, turn, res, bg, mg, decay_log, embedder, fn>>

\* the variables a single-statement operation never touches
nonOp == <<tx, rc, rt, turn, res, bg, mg, decay_log, embedder, fn>>

\* turns of the model
MaxTurns == 2

Turns == 1..MaxTurns

\* the connection of Phase 0, and the one of the background task of turn n
FgSlot == 1

BgSlot(n) == n + 1

Slots == 1..(MaxTurns + 1)

NoEnt == [op |-> "none", id |-> NoId, name |-> "", alias |-> ""]

IdleTx ==
  [pc |-> "idle", src |-> "none", mem |-> NoProposal, id |-> NoId, created |-> 0,
   conflicts |-> {}, pending |-> << >>, i |-> 1, inserted |-> FALSE, deact |-> {},
   prefs |-> << >>, ent |-> NoEnt, resolved |-> << >>, createdEnts |-> {},
   aliasAdded |-> {}, todoRel |-> {}, recorded |-> {}, result |-> "none", error |-> "none"]

IdleRc == [pc |-> "idle", id |-> NoId, resolution |-> "none", row |-> NoId]

IdleRt == [pc |-> "idle", query |-> "", ids |-> {}]

MemIds == DOMAIN memory_units

ActiveIds == {m \in MemIds : memory_units[m].is_active}

\* rows of memory_units an open transaction has updated and not yet committed:
\* an UPDATE of such a row from another connection waits for the transaction
LockedBy(s) == tx[s].deact

Locked == UNION {LockedBy(s) : s \in Slots}

\* ------------------------------------------------------------------------
\* insertMemoryUnit (memoryStore.js) and the helpers it awaits
\* ------------------------------------------------------------------------
\* the row INSERT INTO memory_units builds from the proposal: tier || observed_fact,
\* confidence || 0.8, importance || 5 for base and current importance; created_at
\* and last_decay_at default to NOW(), the start of the transaction
NewRow(t) ==
  [summary |-> t.mem.summary,
   tier |-> IF t.mem.tier = "" THEN "observed_fact" ELSE t.mem.tier,
   confidence |-> IF t.mem.confidence = 0 THEN 80 ELSE t.mem.confidence,
   entities |-> t.mem.entities,
   structured_facts |-> t.mem.structured_facts,
   base_importance |-> 1000 * (IF t.mem.importance = 0 THEN 5 ELSE t.mem.importance),
   current_importance |-> 1000 * (IF t.mem.importance = 0 THEN 5 ELSE t.mem.importance),
   last_decay_at |-> t.created,
   access_count |-> 0,
   last_accessed_at |-> NoTime,
   is_active |-> TRUE,
   supersedes |-> t.mem.supersedes,
   source_conversation_id |-> NoConversation,
   created_at |-> t.created]

\* the CHECK constraints and the enum of memory_units
RowAccepted(row) ==
  /\ row.tier \in Tiers
  /\ row.confidence >= 0 /\ row.confidence <= 100
  /\ row.base_importance >= 1000 /\ row.base_importance <= 10000

\* where the pipeline goes after a stage, skipping the stages whose input is empty
AfterDiscover(t) == "commit"

AfterLink(t) == IF t.mem.related_to # {} THEN "relate" ELSE "discover"

AfterPref(t) == IF Len(t.mem.entities) > 0 THEN "ent_find" ELSE AfterLink(t)

AfterRecord(t) == IF Len(t.mem.preferences) > 0 THEN "pref" ELSE AfterPref(t)

AfterDeactivate(t) == IF Len(t.pending) > 0 THEN "record" ELSE AfterRecord(t)

AfterInsert(t) == IF t.mem.supersedes # {} THEN "deactivate" ELSE AfterDeactivate(t)

\* catch (err) { ROLLBACK; throw err }: the client's uncommitted writes are dropped
Thrown(t, why) ==
  [t EXCEPT !.pc = "done", !.result = "error", !.error = why,
            !.inserted = FALSE, !.deact = {}, !.prefs = << >>]

\* the rows of the store that starts out crowded with identity memories
MaxCrowd == 6

\* the last id the model hands out: MaxMem rows on top of those a store
\* started with
MemCap == IF Cardinality(MemIds) >= MaxCrowd THEN MaxCrowd + MaxMem ELSE MaxMem

\* pool.connect(); BEGIN
Begin(s, src, p) ==
  /\ tx[s].pc = "idle"
  /\ nextId <= MemCap
  /\ tx' = [tx EXCEPT ![s] = [IdleTx EXCEPT !.pc = "embed", !.src = src, !.mem = p,
                                            !.id = nextId, !.created = now]]
  /\ nextId' = nextId + 1
  /\ UNCHANGED <<now, memory_units, preferences, entities, nextEnt, memory_relations, contradictions>>

\* insertMemoryUnit(mem) called by a client of the store
InsertMemoryUnit(s, src, p) == Begin(s, src, p) /\ UNCHANGED nonTx

\* 1. embedText(mem.summary)
EmbedText(s) ==
  /\ tx[s].pc = "embed"
  /\ tx' = [tx EXCEPT ![s].pc = "detect_identity"]
  /\ UNCHANGED <<now, nextId, memory_units, preferences, entities, nextEnt, memory_relations, contradictions>>
  /\ UNCHANGED nonTx

\* the embedder throws (model unavailable)
EmbedTextFails(s) ==
  /\ tx[s].pc = "embed"
  /\ tx' = [tx EXCEPT ![s] = Thrown(tx[s], "embedding")]
  /\ UNCHANGED <<now, nextId, memory_units, preferences, entities, nextEnt, memory_relations, contradictions>>
  /\ UNCHANGED nonTx

\* the identity query of detectContradictions: the IDENTITY_LIMIT most recent
\* active rows whose text matches, read from the pool
IdentityMemories ==
  TopN({m \in ActiveIds : IdentityQueryMatches(memory_units[m].summary)}, IDENTITY_LIMIT)

\* detectContradictions, pass 0: the identity memories whose name differs
\* case-insensitively from the new one
IdentityConflicts(newUserName) ==
  {m \in IdentityMemories :
      /\ ExtractUserName(memory_units[m].summary) # "none"
      /\ Lower(ExtractUserName(memory_units[m].summary)) # Lower(newUserName)}

\* 2a. detectContradictions up to the identity query
DetectIdentity(s) ==
  /\ tx[s].pc = "detect_identity"
  /\ LET newUserName == ExtractUserName(tx[s].mem.summary)
         found == IF newUserName = "none" THEN {} ELSE IdentityConflicts(newUserName)
     IN tx' = [tx EXCEPT ![s].pc = "detect_similar",
                         ![s].conflicts = {[existing |-> m, action |-> "a_supersedes",
                                            type |-> "identity_conflict"] : m \in found}]
  /\ UNCHANGED <<now, nextId, memory_units, preferences, entities, nextEnt, memory_relations, contradictions>>
  /\ UNCHANGED nonTx

\* the similarity query: active rows with cosine above the threshold, the
\* SIMILAR_LIMIT most similar of them
SimilarMemories(summary) ==
  LET cands == {m \in ActiveIds :
                  Similarity(summary, memory_units[m].summary) > CONTRADICTION_THRESHOLD}
  IN IF Cardinality(cands) <= SIMILAR_LIMIT THEN cands
     ELSE CHOOSE S \in SUBSET cands :
            /\ Cardinality(S) = SIMILAR_LIMIT
            /\ \A a \in S, b \in cands \ S :
                 Similarity(summary, memory_units[a].summary)
                   >= Similarity(summary, memory_units[b].summary)

\* the loop of insertMemoryUnit over the conflicts dropping the a_supersedes branch
SupersededByConflictsNone(conflicts) == {}

\* the loop of insertMemoryUnit over the conflicts, a_supersedes branch:
\* the ids appended to mem.supersedes
SupersededByConflicts(conflicts) ==
  {c.existing : c \in {d \in conflicts : d.action = "a_supersedes"}}

\* the loop of insertMemoryUnit over the conflicts, pending branch
PendingOfConflicts(conflicts) ==
  SetToSeq({c.existing : c \in {d \in conflicts : d.action = "pending"}})

\* 2b. detectContradictions from the similarity query on, then the loop over
\* the conflicts
DetectSimilar(s) ==
  /\ tx[s].pc = "detect_similar"
  /\ LET t == tx[s]
         semantic == {[existing |-> m,
                       action |-> AnalyzeConflict(t.mem, memory_units[m],
                                     Similarity(t.mem.summary, memory_units[m].summary)),
                       type |-> "semantic"] : m \in SimilarMemories(t.mem.summary)}
         conflicts == t.conflicts \cup {c \in semantic : c.action # "none"}
     IN tx' = [tx EXCEPT ![s].pc = "insert",
                         ![s].conflicts = conflicts,
                         ![s].mem.supersedes = t.mem.supersedes \cup SupersededByConflicts(conflicts),
                         ![s].pending = PendingOfConflicts(conflicts)]
  /\ UNCHANGED <<now, nextId, memory_units, preferences, entities, nextEnt, memory_relations, contradictions>>
  /\ UNCHANGED nonTx

\* 3. INSERT INTO memory_units on the client
InsertRow(s) ==
  /\ tx[s].pc = "insert"
  /\ tx' = [tx EXCEPT ![s] =
              IF RowAccepted(NewRow(tx[s]))
              THEN [tx[s] EXCEPT !.pc = AfterInsert(tx[s]), !.inserted = TRUE]
              ELSE Thrown(tx[s], "check_constraint")]
  /\ UNCHANGED <<now, nextId, memory_units, preferences, entities, nextEnt, memory_relations, contradictions>>
  /\ UNCHANGED nonTx

\* step 4 touching nothing
RowsToDeactivateNone(t) == {}

\* 4. UPDATE memory_units SET is_active = false WHERE id = ANY(mem.supersedes),
\* on the client: the committed rows it reaches
RowsToDeactivate(t) == t.mem.supersedes \cap MemIds

DeactivateSuperseded(s) ==
  /\ tx[s].pc = "deactivate"
  /\ RowsToDeactivate(tx[s]) \cap UNION {LockedBy(o) : o \in Slots \ {s}} = {}
  /\ tx' = [tx EXCEPT ![s].pc = AfterDeactivate(tx[s]),
                      ![s].deact = RowsToDeactivate(tx[s])]
  /\ UNCHANGED <<now, nextId, memory_units, preferences, entities, nextEnt, memory_relations, contradictions>>
  /\ UNCHANGED nonTx

\* the foreign keys of contradictions, checked by the pool's connection
\* against committed memory_units
ContradictionKeysExist(a, b) == a \in MemIds /\ b \in MemIds

\* recordContradiction(memoryA, memoryB, reason, resolution): the row it inserts
ContradictionRow(a, b, resolution) ==
  [memory_a |-> a, memory_b |-> b, resolution |-> resolution, resolved_at |-> NoTime]

\* 4b. recordContradiction for the next buffered pending conflict, on the
\* detector's pool; its error is caught and logged
RecordPending(s) ==
  /\ tx[s].pc = "record"
  /\ LET t == tx[s]
         b == t.pending[t.i]
         ok == ContradictionKeysExist(t.id, b)
         last == t.i = Len(t.pending)
     IN /\ contradictions' = IF ok THEN Append(contradictions, ContradictionRow(t.id, b, "pending"))
                             ELSE contradictions
        /\ tx' = [tx EXCEPT ![s].pc = IF last THEN AfterRecord(t) ELSE "record",
                            ![s].i = IF last THEN 1 ELSE t.i + 1,
                            ![s].recorded = IF ok THEN t.recorded \cup {b} ELSE t.recorded]
  /\ UNCHANGED <<now, nextId, memory_units, preferences, entities, nextEnt, memory_relations>>
  /\ UNCHANGED nonTx

\* the row INSERT INTO preferences builds: subject "user", strength || 0.5,
\* confidence = mem.confidence || 0.75, memory_id the new memory; is_active and
\* superseded_by take their defaults
PreferenceRow(t, pref) ==
  [subject |-> "user", entity |-> pref.entity, valence |-> pref.valence,
   strength |-> IF pref.strength = 0 THEN 50 ELSE pref.strength,
   confidence |-> IF t.mem.confidence = 0 THEN 75 ELSE t.mem.confidence,
   memory_id |-> t.id, is_active |-> TRUE, superseded_by |-> NoId]

\* 5. INSERT INTO preferences for the next preference, on the client
InsertPreference(s) ==
  /\ tx[s].pc = "pref"
  /\ LET t == tx[s]
         last == t.i = Len(t.mem.preferences)
     IN tx' = [tx EXCEPT ![s].pc = IF last THEN AfterPref(t) ELSE "pref",
                         ![s].i = IF last THEN 1 ELSE t.i + 1,
                         ![s].prefs = Append(t.prefs, PreferenceRow(t, t.mem.preferences[t.i]))]
  /\ UNCHANGED <<now, nextId, memory_units, preferences, entities, nextEnt, memory_relations, contradictions>>
  /\ UNCHANGED nonTx

\* ------------------------------------------------------------------------
\* Entity resolution (entityResolver.js), called from step 6 on the
\* resolver's pool
\* ------------------------------------------------------------------------
EntIds == DOMAIN entities

\* SELECT * FROM entities WHERE LOWER(canonical_name) = LOWER(name)
CanonicalMatches(name) == {e \in EntIds : Lower(entities[e].canonical_name) = Lower(name)}

\* SELECT * FROM entities WHERE mentionLower = ANY(SELECT LOWER(unnest(aliases)))
AliasMatches(mention) ==
  {e \in EntIds : \E a \in entities[e].aliases : Lower(a) = Lower(mention)}

\* rows[0] of a result: the oldest matching row
FirstRow(S) == CHOOSE e \in S : \A f \in S : e <= f

\* entityLinks.find(link => link.mention.toLowerCase() === mentionLower)
ExplicitLinks(links, mention) ==
  {k \in DOMAIN links : Lower(links[k].mention) = Lower(mention) /\ links[k].canonical # ""}

\* resolveEntity(mention, entityLinks) up to the write it decides on: the
\* explicit link and findOrCreateEntity's lookup, else the canonical match,
\* else the alias match, else a new entity for a capitalised mention
ResolveEntity(mention, links) ==
  IF ExplicitLinks(links, mention) # {}
    THEN LET canonical == links[FirstRow(ExplicitLinks(links, mention))].canonical
             existing == CanonicalMatches(canonical)
         IN IF existing = {}
              THEN [op |-> "create", id |-> NoId, name |-> canonical, alias |-> mention,
                    source |-> "explicit_link"]
            ELSE IF mention \notin entities[FirstRow(existing)].aliases
              THEN [op |-> "add_alias", id |-> FirstRow(existing), name |-> canonical,
                    alias |-> mention, source |-> "explicit_link"]
            ELSE [op |-> "found", id |-> FirstRow(existing), name |-> canonical,
                  alias |-> mention, source |-> "explicit_link"]
  ELSE IF CanonicalMatches(mention) # {}
    THEN [op |-> "found", id |-> FirstRow(CanonicalMatches(mention)), name |-> "", alias |-> "",
          source |-> "exact_match"]
  ELSE IF AliasMatches(mention) # {}
    THEN [op |-> "found", id |-> FirstRow(AliasMatches(mention)), name |-> "", alias |-> "",
          source |-> "alias_match"]
  ELSE IF IsCapitalised(mention)
    THEN [op |-> "create", id |-> NoId, name |-> mention, alias |-> "", source |-> "new_entity"]
  ELSE [op |-> "unresolved", id |-> NoId, name |-> "", alias |-> "", source |-> "unresolved"]

\* the stage after the mention at index i of the resolve loop
AfterMention(t) ==
  IF t.i = Len(t.mem.entities) THEN "link" ELSE "ent_find"

\* 6a. resolveEntity for the next mention: its lookups
EntFind(s) ==
  /\ tx[s].pc = "ent_find"
  /\ LET t == tx[s]
         r == ResolveEntity(t.mem.entities[t.i], t.mem.entity_links)
     IN tx' = [tx EXCEPT ![s] =
                 IF r.op \in {"create", "add_alias"}
                 THEN [t EXCEPT !.pc = "ent_write", !.ent = r]
                 ELSE [t EXCEPT !.pc = AfterMention(t),
                                !.i = IF t.i = Len(t.mem.entities) THEN 1 ELSE t.i + 1,
                                !.resolved = Append(t.resolved, r.id)]]
  /\ UNCHANGED <<now, nextId, memory_units, preferences, entities, nextEnt, memory_relations, contradictions>>
  /\ UNCHANGED nonTx

\* UNIQUE (canonical_name): the constraint compares the strings as they are
CanonicalNameTaken(name) == \E e \in EntIds : entities[e].canonical_name = name

\* 6b. findOrCreateEntity's write: INSERT INTO entities, or the alias append
EntWrite(s) ==
  /\ tx[s].pc = "ent_write"
  /\ LET t == tx[s]
         r == t.ent
         step(id) == [t EXCEPT !.pc = AfterMention(t),
                               !.i = IF t.i = Len(t.mem.entities) THEN 1 ELSE t.i + 1,
                               !.ent = NoEnt,
                               !.resolved = Append(t.resolved, id)]
     IN IF r.op = "create"
        THEN IF CanonicalNameTaken(r.name)
             THEN /\ tx' = [tx EXCEPT ![s] = Thrown(t, "duplicate_entity")]
                  /\ UNCHANGED <<entities, nextEnt>>
             ELSE /\ entities' = [e \in EntIds \cup {nextEnt} |->
                                    IF e = nextEnt
                                    THEN [canonical_name |-> r.name,
                                          aliases |-> IF r.alias = "" THEN {} ELSE {r.alias},
                                          memory_ids |-> {}]
                                    ELSE entities[e]]
                  /\ nextEnt' = nextEnt + 1
                  /\ tx' = [tx EXCEPT ![s] = [step(nextEnt) EXCEPT
                                                !.createdEnts = t.createdEnts \cup {nextEnt}]]
        ELSE /\ entities' = [e \in EntIds |->
                               IF e = r.id
                               THEN [entities[e] EXCEPT !.aliases = @ \cup {r.alias}]
                               ELSE entities[e]]
             /\ nextEnt' = nextEnt
             /\ tx' = [tx EXCEPT ![s] = [step(r.id) EXCEPT
                                           !.aliasAdded = t.aliasAdded \cup {<<r.id, r.alias>>}]]
  /\ UNCHANGED <<now, nextId, memory_units, preferences, memory_relations, contradictions>>
  /\ UNCHANGED nonTx

\* linkMemoryToEntities: memory_ids after array_append(memory_ids, memoryId)
\* WHERE NOT (memoryId = ANY(memory_ids))
LinkedMemoryIds(ids, memoryId) == ids \cup {memoryId}

\* 6c. linkMemoryToEntities for the next resolved entity
LinkEntity(s) ==
  /\ tx[s].pc = "link"
  /\ LET t == tx[s]
         e == t.resolved[t.i]
         last == t.i = Len(t.resolved)
     IN /\ entities' = [x \in EntIds |->
                          IF x = e
                          THEN [entities[x] EXCEPT !.memory_ids = LinkedMemoryIds(@, t.id)]
                          ELSE entities[x]]
        /\ tx' = [tx EXCEPT ![s].pc = IF last THEN AfterLink(t) ELSE "link",
                            ![s].i = IF last THEN 1 ELSE t.i + 1]
  /\ UNCHANGED <<now, nextId, memory_units, preferences, nextEnt, memory_relations, contradictions>>
  /\ UNCHANGED nonTx

\* ------------------------------------------------------------------------
\* Relations (graphRetrieval.js), called from steps 7 and 8 on the graph
\* module's pool
\* ------------------------------------------------------------------------
\* the foreign keys of memory_relations, checked against committed memory_units
RelationKeysExist(sourceId, targetId) == sourceId \in MemIds /\ targetId \in MemIds

SameEdge(r, sourceId, targetId, relationType) ==
  r.source_id = sourceId /\ r.target_id = targetId /\ r.relation_type = relationType

\* createRelation: INSERT ... ON CONFLICT (source_id, target_id, relation_type)
\* DO UPDATE SET weight = GREATEST(memory_relations.weight, weight)
UpsertRelation(rels, sourceId, targetId, relationType, weight, bidirectional) ==
  IF \E r \in rels : SameEdge(r, sourceId, targetId, relationType)
  THEN {IF SameEdge(r, sourceId, targetId, relationType)
        THEN [r EXCEPT !.weight = Max(r.weight, weight)] ELSE r : r \in rels}
  ELSE rels \cup {[source_id |-> sourceId, target_id |-> targetId,
                   relation_type |-> relationType, weight |-> weight,
                   bidirectional |-> bidirectional]}

\* 7. createRelation(memoryId, relatedId, "related_to", 0.8, true) for the next
\* explicit related_to id; a foreign-key violation throws
CreateExplicitRelation(s) ==
  /\ tx[s].pc = "relate"
  /\ LET t == tx[s]
         todo == t.mem.related_to \ t.todoRel
         relatedId == CHOOSE x \in todo : \A y \in todo : x <= y
         last == todo = {relatedId}
     IN IF RelationKeysExist(t.id, relatedId)
        THEN /\ memory_relations' = UpsertRelation(memory_relations, t.id, relatedId,
                                       "related_to", EXPLICIT_RELATION_WEIGHT, TRUE)
             /\ tx' = [tx EXCEPT ![s].pc = IF last THEN "discover" ELSE "relate",
                                 ![s].todoRel = t.todoRel \cup {relatedId}]
        ELSE /\ memory_relations' = memory_relations
             /\ tx' = [tx EXCEPT ![s] = Thrown(t, "foreign_key")]
  /\ UNCHANGED <<now, nextId, memory_units, preferences, entities, nextEnt, contradictions>>
  /\ UNCHANGED nonTx

\* entities.filter(e => rel.entities.includes(e)).length / Math.max(lengths), in hundredths
OverlapWeight(a, b) ==
  LET overlap == Cardinality({i \in DOMAIN a : \E j \in DOMAIN b : a[i] = b[j]})
  IN (100 * overlap) \div Max(Len(a), Len(b))

\* discoverRelations(memoryId): the rows its second query returns, when the
\* first one finds the memory: other active rows with entities && entities
DiscoverCandidates(memoryId) ==
  IF memoryId \notin MemIds THEN {}
  ELSE {m \in ActiveIds \ {memoryId} :
          \E i \in DOMAIN memory_units[memoryId].entities :
          \E j \in DOMAIN memory_units[m].entities :
             memory_units[memoryId].entities[i] = memory_units[m].entities[j]}

RECURSIVE DiscoverInto(_, _, _)
DiscoverInto(rels, memoryId, cands) ==
  IF cands = {} THEN rels
  ELSE LET m == CHOOSE x \in cands : \A y \in cands : x <= y
           w == OverlapWeight(memory_units[memoryId].entities, memory_units[m].entities)
       IN DiscoverInto(IF w >= DISCOVER_MIN_WEIGHT
                       THEN UpsertRelation(rels, memoryId, m, "related_to", w, TRUE)
                       ELSE rels,
                       memoryId, cands \ {m})

\* 8. discoverRelations(memoryId): it reads the new memory through the pool
\* and returns at once when the row is not there
DiscoverRelations(s) ==
  /\ tx[s].pc = "discover"
  /\ memory_relations' = DiscoverInto(memory_relations, tx[s].id, DiscoverCandidates(tx[s].id))
  /\ tx' = [tx EXCEPT ![s].pc = AfterDiscover(tx[s])]
  /\ UNCHANGED <<now, nextId, memory_units, preferences, entities, nextEnt, contradictions>>
  /\ UNCHANGED nonTx

\* COMMIT rewriting is_active on every row: false for the rows the client's
\* UPDATE reached, true for all the others
CommittedMemoriesResetting(t) ==
  [m \in MemIds \cup {t.id} |->
     IF m = t.id THEN NewRow(t)
     ELSE [memory_units[m] EXCEPT !.is_active = (m \notin t.deact)]]

\* COMMIT applied to memory_units: the new row, and the rows the client's
\* UPDATE deactivated
CommittedMemories(t) ==
  [m \in MemIds \cup {t.id} |->
     IF m = t.id THEN NewRow(t)
     ELSE IF m \in t.deact THEN [memory_units[m] EXCEPT !.is_active = FALSE]
     ELSE memory_units[m]]

\* COMMIT
Commit(s) ==
  /\ tx[s].pc = "commit"
  /\ memory_units' = CommittedMemories(tx[s])
  /\ preferences' = preferences \o tx[s].prefs
  /\ tx' = [tx EXCEPT ![s].pc = "done", ![s].result = "ok"]
  /\ UNCHANGED <<now, nextId, entities, nextEnt, memory_relations, contradictions>>
  /\ UNCHANGED nonTx

\* COMMIT fails (the connection is lost): ROLLBACK, rethrow
CommitFails(s) ==
  /\ tx[s].pc = "commit"
  /\ tx' = [tx EXCEPT ![s] = Thrown(tx[s], "storage")]
  /\ UNCHANGED <<now, nextId, memory_units, preferences, entities, nextEnt, memory_relations, contradictions>>
  /\ UNCHANGED nonTx

\* the caller takes the result (or the error); client.release()
Release(s) ==
  /\ tx[s].pc = "done"
  /\ tx' = [tx EXCEPT ![s] = IdleTx]
  /\ UNCHANGED <<now, nextId, memory_units, preferences, entities, nextEnt, memory_relations, contradictions>>

Return(s) == Release(s) /\ UNCHANGED nonTx

\* one step of the insertMemoryUnit call in slot s
InsertStep(s) ==
  \/ EmbedText(s) \/ EmbedTextFails(s)
  \/ DetectIdentity(s) \/ DetectSimilar(s)
  \/ InsertRow(s) \/ DeactivateSuperseded(s) \/ RecordPending(s) \/ InsertPreference(s)
  \/ EntFind(s) \/ EntWrite(s) \/ LinkEntity(s)
  \/ CreateExplicitRelation(s) \/ DiscoverRelations(s)
  \/ Commit(s) \/ CommitFails(s)

\* ------------------------------------------------------------------------
\* Single statements on the pool: row locks, manual operations, decay
\* ------------------------------------------------------------------------
\* array_append(supersedes, id); the model keeps the ids as a set
ArrayAppend(arr, id) == arr \cup {id}

\* CHECK (resolution IN (...)) of contradictions
Resolutions == {"pending", "a_supersedes", "b_supersedes", "coexist", "merged", "user_resolved"}

\* recordContradiction(memoryA, memoryB, reason, "pending") called by a client
\* of the detector with two stored memories
RecordContradiction(a, b) ==
  /\ Len(contradictions) < MaxContra
  /\ ContradictionKeysExist(a, b)
  /\ contradictions' = Append(contradictions, ContradictionRow(a, b, "pending"))
  /\ UNCHANGED <<now, nextId, memory_units, preferences, entities, nextEnt, memory_relations>>
  /\ UNCHANGED nonOp

\* resolveContradiction(contradictionId, resolution): UPDATE contradictions SET
\* resolution, resolved_at; a resolution outside the CHECK list throws here
ResolveUpdate(id, resolution) ==
  /\ rc.pc = "idle"
  /\ IF resolution \in Resolutions
     THEN /\ contradictions' = IF id \in DOMAIN contradictions
                                THEN [contradictions EXCEPT ![id].resolution = resolution,
                                                            ![id].resolved_at = now]
                                ELSE contradictions
          /\ rc' = [pc |-> "select", id |-> id, resolution |-> resolution, row |-> NoId]
     ELSE /\ contradictions' = contradictions
          /\ rc' = rc
  /\ UNCHANGED <<now, nextId, memory_units, preferences, entities, nextEnt, memory_relations>>
  /\ UNCHANGED nonRc

\* the loser of a_supersedes taken to be memory_a
LoserMirrored(c, resolution) == IF resolution = "a_supersedes" THEN c.memory_a ELSE c.memory_b

\* the loser and the winner of a resolved row
Loser(c, resolution) == IF resolution = "a_supersedes" THEN c.memory_b ELSE c.memory_a

Winner(c, resolution) == IF resolution = "a_supersedes" THEN c.memory_a ELSE c.memory_b

\* SELECT * FROM contradictions WHERE id = $1, and the branch on
\* contradiction.rows[0] and on resolution
ResolveSelect ==
  /\ rc.pc = "select"
  /\ rc' = IF rc.id \in DOMAIN contradictions /\ rc.resolution \in {"a_supersedes", "b_supersedes"}
           THEN [rc EXCEPT !.pc = "deactivate", !.row = rc.id]
           ELSE IdleRc
  /\ UNCHANGED <<now, nextId, memory_units, preferences, entities, nextEnt, memory_relations, contradictions>>
  /\ UNCHANGED nonRc

\* UPDATE memory_units SET is_active = false WHERE id = loser
ResolveDeactivate ==
  /\ rc.pc = "deactivate"
  /\ LET loser == Loser(contradictions[rc.row], rc.resolution)
     IN /\ loser \notin Locked
        /\ memory_units' = [memory_units EXCEPT ![loser].is_active = FALSE]
  /\ rc' = [rc EXCEPT !.pc = "append"]
  /\ UNCHANGED <<now, nextId, preferences, entities, nextEnt, memory_relations, contradictions>>
  /\ UNCHANGED nonRc

\* UPDATE memory_units SET supersedes = array_append(supersedes, loser) WHERE id = winner
ResolveAppend ==
  /\ rc.pc = "append"
  /\ LET c == contradictions[rc.row]
         winner == Winner(c, rc.resolution)
     IN /\ winner \notin Locked
        /\ memory_units' = [memory_units EXCEPT
                              ![winner].supersedes = ArrayAppend(@, Loser(c, rc.resolution))]
  /\ rc' = IdleRc
  /\ UNCHANGED <<now, nextId, preferences, entities, nextEnt, memory_relations, contradictions>>
  /\ UNCHANGED nonRc

\* deactivateMemory(id)
DeactivateMemory(id) ==
  /\ id \in MemIds
  /\ id \notin Locked
  /\ memory_units[id].is_active
  /\ memory_units' = [memory_units EXCEPT ![id].is_active = FALSE]
  /\ UNCHANGED <<now, nextId, preferences, entities, nextEnt, memory_relations, contradictions>>
  /\ UNCHANGED nonOp

\* the rows archiveLowImportanceMemories(1.5, 90) updates
ArchiveRows ==
  {m \in ActiveIds : /\ memory_units[m].current_importance < ARCHIVE_THRESHOLD
                     /\ memory_units[m].created_at < now - ARCHIVE_MAX_AGE_DAYS}

\* archiveLowImportanceMemories()
ArchiveLowImportanceMemories ==
  /\ ArchiveRows # {}
  /\ ArchiveRows \cap Locked = {}
  /\ memory_units' = [m \in MemIds |->
                        IF m \in ArchiveRows
                        THEN [memory_units[m] EXCEPT !.is_active = FALSE]
                        ELSE memory_units[m]]
  /\ UNCHANGED <<now, nextId, preferences, entities, nextEnt, memory_relations, contradictions>>
  /\ UNCHANGED nonOp

\* the UPDATE of runDecayUpdate writing the access fields back to their defaults
DecayedRowResettingAccess(row) ==
  [row EXCEPT !.current_importance =
                 CalculateDecayedImportance(row.base_importance, row.created_at,
                                            row.last_decay_at, row.access_count,
                                            row.last_accessed_at, now),
              !.last_decay_at = now,
              !.access_count = 0,
              !.last_accessed_at = NoTime]

\* the row runDecayUpdate's UPDATE writes for an active memory
DecayedRow(row) ==
  [row EXCEPT !.current_importance =
                 CalculateDecayedImportance(row.base_importance, row.created_at,
                                            row.last_decay_at, row.access_count,
                                            row.last_accessed_at, now),
              !.last_decay_at = now]

\* runDecayUpdate(): one UPDATE ... WHERE is_active = true
RunDecayUpdate ==
  /\ ActiveIds # {}
  /\ ActiveIds \cap Locked = {}
  /\ memory_units' = [m \in MemIds |->
                        IF m \in ActiveIds THEN DecayedRow(memory_units[m]) ELSE memory_units[m]]
  /\ UNCHANGED <<now, nextId, preferences, entities, nextEnt, memory_relations, contradictions>>
  /\ UNCHANGED nonOp

\* the UPDATE without its WHERE id = ANY($1)
ReinforcedRowsEveryRow(ids) ==
  [m \in MemIds |-> [memory_units[m] EXCEPT !.access_count = @ + 1, !.last_accessed_at = now]]

\* reinforceMemories(ids): access_count + 1, last_accessed_at = NOW()
ReinforcedRows(ids) ==
  [m \in MemIds |->
     IF m \in ids
     THEN [memory_units[m] EXCEPT !.access_count = @ + 1, !.last_accessed_at = now]
     ELSE memory_units[m]]

\* ------------------------------------------------------------------------
\* Retrieval (graphRetrieval.js, memoryStore.js retrieveMemories)
\* ------------------------------------------------------------------------
\* ts_rank(to_tsvector(summary), plainto_tsquery(query)) in hundredths: the
\* model's texts rank 10 when query and summary share a content word
TsRank(query, summary) ==
  IF \/ (query \in {"My name is Costa", "My name is Alex", "Who am I?"}
           /\ summary \in {NameCosta, NameAlex})
     \/ (query \in {"I love coffee", "I hate coffee"}
           /\ summary \in {LikesCoffee, DislikesCoffee})
  THEN 10 ELSE 0

\* cosine similarity of a user message and a summary, in hundredths
QuerySimilarity(query, summary) ==
  CASE query = "My name is Costa" /\ summary = NameCosta -> 90
    [] query = "My name is Alex" /\ summary = NameAlex -> 90
    [] query = "I love coffee" /\ summary = LikesCoffee -> 90
    [] query = "I hate coffee" /\ summary = DislikesCoffee -> 90
    [] TsRank(query, summary) > 0 -> 70
    [] OTHER -> 40

\* base_score in thousandths:
\* 0.6 * similarity + 0.2 * ts_rank + 0.2 * (current_importance / 10)
BaseScore(query, m) ==
  6 * QuerySimilarity(query, memory_units[m].summary)
    + 2 * TsRank(query, memory_units[m].summary)
    + memory_units[m].current_importance \div 50

\* ORDER BY score DESC LIMIT n reading the store as it was before the turn's
\* instant writes
TopByScoreBeforeInstant(S, score, n) ==
  IF Cardinality(S \ turn.instant) <= n THEN S \ turn.instant
  ELSE CHOOSE T \in SUBSET (S \ turn.instant) :
         /\ Cardinality(T) = n
         /\ \A a \in T, b \in (S \ turn.instant) \ T : score[a] >= score[b]

\* ORDER BY score DESC LIMIT n over the ids of S
TopByScore(S, score, n) ==
  IF Cardinality(S) <= n THEN S
  ELSE CHOOSE T \in SUBSET S :
         /\ Cardinality(T) = n
         /\ \A a \in T, b \in S \ T : score[a] >= score[b]

\* the join without its WHERE m.is_active = true
SpreadRowsAnyRow(sourceIds) ==
  {x \in memory_relations \X (MemIds \ sourceIds) :
      \/ (x[1].source_id \in sourceIds /\ x[2] = x[1].target_id)
      \/ (x[1].target_id \in sourceIds /\ x[2] = x[1].source_id /\ x[1].bidirectional)}

\* the rows of spreadActivation's join: a relation leaving a source, or a
\* bidirectional one entering it, and the active memory outside the sources
\* at its other end
SpreadRows(sourceIds) ==
  {x \in memory_relations \X (ActiveIds \ sourceIds) :
      \/ (x[1].source_id \in sourceIds /\ x[2] = x[1].target_id)
      \/ (x[1].target_id \in sourceIds /\ x[2] = x[1].source_id /\ x[1].bidirectional)}

RECURSIVE SumSpread(_, _, _)
\* the sum of similarity * weight * decay over a set of join rows, in thousandths
SumSpread(rows, query, decay) ==
  IF rows = {} THEN 0
  ELSE LET x == CHOOSE y \in rows : TRUE
       IN (QuerySimilarity(query, memory_units[x[2]].summary) * x[1].weight * decay) \div 1000
            + SumSpread(rows \ {x}, query, decay)

RECURSIVE SpreadActivation(_, _, _, _, _, _)
\* spreadActivation(sourceIds, scoreMap, queryVector, depth, decay): the score
\* map as the pair <<ids present, score by id>>
SpreadActivation(sourceIds, present, score, query, depth, decay) ==
  IF depth <= 0 \/ sourceIds = {} THEN <<present, score>>
  ELSE LET rows == SpreadRows(sourceIds)
           reached == {x[2] : x \in rows}
           newIds == reached \ present
           added == [m \in MemIds |->
                       score[m] + SumSpread({x \in rows : x[2] = m}, query, decay)]
       IN IF newIds = {} THEN <<present \cup reached, added>>
          ELSE SpreadActivation(newIds, present \cup reached, added, query,
                                depth - 1, (decay * decay) \div 100)

\* retrieveWithSpreadingActivation({queryText, k}): the ids it returns
RetrieveWithSpreadingActivation(query, k) ==
  LET base == [m \in MemIds |-> IF m \in ActiveIds THEN BaseScore(query, m) ELSE 0]
      direct == TopByScore(ActiveIds, base, 2 * k)
      start == [m \in MemIds |-> IF m \in direct THEN base[m] ELSE 0]
      spread == SpreadActivation(direct, direct, start, query, SPREADING_DEPTH, SPREADING_DECAY)
  IN IF direct = {} THEN {} ELSE TopByScore(spread[1], spread[2], k)

\* retrieveMemories, first await: the query; with no memory found it returns
\* at once
Retrieve(query) ==
  /\ rt.pc = "idle"
  /\ RetrieveWithSpreadingActivation(query, RETRIEVAL_K) # {}
  /\ rt' = [pc |-> "reinforce", query |-> query,
            ids |-> RetrieveWithSpreadingActivation(query, RETRIEVAL_K)]
  /\ UNCHANGED <<now, nextId, memory_units, preferences, entities, nextEnt, memory_relations, contradictions>>

\* retrieveMemories({queryText}) called by a client of the store
RetrieveMemories(query) == Retrieve(query) /\ UNCHANGED nonRt

\* retrieveMemories, second await: reinforceMemories(ids), then return
Reinforce ==
  /\ rt.pc = "reinforce"
  /\ rt.ids \cap Locked = {}
  /\ \A m \in rt.ids : memory_units[m].access_count < MaxAccess
  /\ memory_units' = ReinforcedRows(rt.ids)
  /\ rt' = IdleRt
  /\ UNCHANGED <<now, nextId, preferences, entities, nextEnt, memory_relations, contradictions>>

ReinforceMemories == Reinforce /\ UNCHANGED nonRt

\* ------------------------------------------------------------------------
\* The store and its clients
\* ------------------------------------------------------------------------
\* the clock moves on by d days
AdvanceTime(d) ==
  /\ now + d <= MaxDay
  /\ now' = now + d
  /\ UNCHANGED <<nextId, memory_units, preferences, entities, nextEnt, memory_relations, contradictions>>
  /\ UNCHANGED nonOp

IdleTurn == [pc |-> "idle", n |-> 0, msg |-> "", conversationId |-> NoConversation,
             queue |-> << >>, instant |-> {}, memories |-> {}, total |-> 0]

NoResponse == [headers |-> FALSE, chunks |-> 0, done |-> FALSE, ended |-> FALSE, error |-> FALSE]

\* calls counts the requests runMemoryAgent has sent to an extractor and raw
\* is the confidence of the content it got back, before
\* parseMemoryAgentResponse, where the extraction is followed request by request
IdleBg == [pc |-> "idle", msg |-> "", memories |-> {}, conversationId |-> NoConversation,
           mem |-> NoProposal, calls |-> 0, raw |-> 0]

\* no row of entities
NoEntity == [canonical_name |-> "", aliases |-> {}, memory_ids |-> {}]

\* no mergeEntities call in flight
IdleMg == [pc |-> "idle", sourceId |-> NoId, targetId |-> NoId,
           source |-> NoEntity, target |-> NoEntity]

\* embeddings.js: the callers of initEmbedder and embedText
EmbedCallers == {1, 2, 3}

\* null, for localEmbedder and initPromise
NoPipeline == 0

\* a caller outside embedText
IdleCall == [pc |-> "idle", awaits |-> NoPipeline, embedder |-> NoPipeline, vector |-> NoPipeline,
             calls |-> 0]

\* let localEmbedder = null; let isInitializing = false; let initPromise = null;
\* promises holds the outcome of each pipeline() call made so far
EmbedderUnloaded ==
  [localEmbedder |-> NoPipeline, isInitializing |-> FALSE, initPromise |-> NoPipeline,
   promises |-> << >>, call |-> [c \in EmbedCallers |-> IdleCall]]

\* no helper function called
IdleFn == [op |-> "idle", args |-> << >>, out |-> << >>]

\* an empty database after schema.sql, no call in flight
Init ==
  /\ now = 0
  /\ nextId = 1
  /\ memory_units = << >>
  /\ preferences = << >>
  /\ entities = << >>
  /\ nextEnt = 1
  /\ memory_relations = {}
  /\ contradictions = << >>
  /\ tx = [s \in Slots |-> IdleTx]
  /\ rc = IdleRc
  /\ rt = IdleRt
  /\ turn = IdleTurn
  /\ res = [n \in Turns |-> NoResponse]
  /\ bg = [n \in Turns |-> IdleBg]
  /\ mg = IdleMg
  /\ decay_log = << >>
  /\ embedder = EmbedderUnloaded
  /\ fn = IdleFn

\* a payload with related_to naming up to one stored memory
WithRelated(p) == {[p EXCEPT !.related_to = r] : r \in {{}} \cup {{m} : m \in MemIds}}

\* the proposals a direct caller of insertMemoryUnit passes: an extractor
\* payload as it is
DirectProposals == UNION {WithRelated(p) : p \in ExtractorPayloads}

\* the connection of the store's client
ApiSlots == {1}

\* the resolutions a client of POST /contradictions/:id/resolve sends
ClientResolutions == {"a_supersedes", "b_supersedes", "coexist"}

\* the queries of the store's client
ApiQueries == {"Who am I?"}

\* the writes of the store under every operation: the two coffee sentences of
\* the instant extractor, the extractor's correction, and a linked name that
\* names a related memory
StoreWrites ==
  {<<"instant", InstantPrefMem("coffee", "positive", 90)>>,
   <<"instant", InstantPrefMem("coffee", "negative", 90)>>,
   <<"deep", ParseMemoryAgentResponse(CorrectionPayload)>>}
    \cup {<<"direct", [LinkedNamePayload EXCEPT !.related_to = {m}]>> : m \in MemIds}

Next ==
  \/ \E s \in ApiSlots, w \in StoreWrites : InsertMemoryUnit(s, w[1], w[2])
  \/ \E s \in ApiSlots : InsertStep(s)
  \/ \E s \in ApiSlots : Return(s)
  \/ \E a, b \in MemIds : a > b /\ RecordContradiction(a, b)
  \/ \E id \in DOMAIN contradictions, r \in ClientResolutions : ResolveUpdate(id, r)
  \/ ResolveSelect
  \/ ResolveDeactivate
  \/ ResolveAppend
  \/ \E id \in MemIds : DeactivateMemory(id)
  \/ ArchiveLowImportanceMemories
  \/ RunDecayUpdate
  \/ \E q \in ApiQueries : RetrieveMemories(q)
  \/ ReinforceMemories
  \/ AdvanceTime(ArchiveStep)

\* the store under every operation of its clients and of the decay service
Spec == Init /\ [][Next]_vars

\* the connections of two concurrent writers
WriterSlots == {1, 2}

NextInsert ==
  \/ \E s \in WriterSlots, p \in InstantProposals : InsertMemoryUnit(s, "instant", p)
  \/ \E s \in WriterSlots, p \in ExtractorPayloads :
        InsertMemoryUnit(s, "deep", ParseMemoryAgentResponse(p))
  \/ \E s \in WriterSlots, p \in DirectProposals : InsertMemoryUnit(s, "direct", p)
  \/ \E s \in WriterSlots : InsertStep(s)
  \/ \E s \in WriterSlots : Return(s)

\* the write pipeline alone, under every kind of proposal
SpecInsert == Init /\ [][NextInsert]_vars

\* ------------------------------------------------------------------------
\* POST /chat (index.js): Phase 0 to Phase 4 of a turn
\* ------------------------------------------------------------------------
Messages == {"My name is Costa", "My name is Alex", "I love coffee", "I hate coffee", "Who am I?"}

\* extractAndStoreInstant: the memories it builds for a message, in the order
\* it inserts them (NAME_PATTERNS first, then PREFERENCE_PATTERNS)
InstantOf(msg) ==
  CASE msg = "My name is Costa" -> <<InstantNameMem("Costa")>>
    [] msg = "My name is Alex" -> <<InstantNameMem("Alex")>>
    [] msg = "I love coffee" -> <<InstantPrefMem("coffee", "positive", 90)>>
    [] msg = "I hate coffee" -> <<InstantPrefMem("coffee", "negative", 90)>>
    [] OTHER -> << >>

\* what the external extractor may answer for a message, besides
\* should_write = false
DeepOf(msg) ==
  CASE msg = "My name is Alex" -> {LinkedNamePayload}
    [] msg = "I love coffee" -> {GuessPayload}
    [] msg = "I hate coffee" -> {CorrectionPayload}
    [] OTHER -> {}

\* the conversation_id the client sends with its messages
ConversationIds == {"c1"}

\* app.post("/chat"): the message is accepted, the SSE headers are flushed
ReceiveChat(msg) ==
  /\ turn.pc = "idle"
  /\ turn.n < MaxTurns
  /\ \E c \in ConversationIds :
       turn' = [IdleTurn EXCEPT !.pc = "p0", !.n = turn.n + 1, !.msg = msg,
                                !.conversationId = c, !.queue = InstantOf(msg)]
  /\ res' = [res EXCEPT ![turn.n + 1].headers = TRUE]
  /\ UNCHANGED <<now, nextId, memory_units, preferences, entities, nextEnt, memory_relations,
                 contradictions, tx, rc, rt, bg, mg, decay_log, embedder, fn>>

\* Phase 0, extractAndStoreInstant: await insertMemoryUnit(mem) for the next match
P0Insert ==
  /\ turn.pc = "p0"
  /\ turn.queue # << >>
  /\ Begin(FgSlot, "instant", Head(turn.queue))
  /\ turn' = [turn EXCEPT !.pc = "p0_wait", !.queue = Tail(turn.queue)]
  /\ UNCHANGED <<rc, rt, res, bg, mg, decay_log, embedder, fn>>

\* the insert returns, or throws into extractAndStoreInstant's catch, which
\* logs the error and gives up the remaining matches
P0Stored ==
  /\ turn.pc = "p0_wait"
  /\ Release(FgSlot)
  /\ turn' = IF tx[FgSlot].result = "ok"
             THEN [turn EXCEPT !.pc = "p0", !.instant = @ \cup {tx[FgSlot].id}]
             ELSE [turn EXCEPT !.pc = "p1", !.queue = << >>]
  /\ UNCHANGED <<rc, rt, res, bg, mg, decay_log, embedder, fn>>

\* extractAndStoreInstant returns
P0Done ==
  /\ turn.pc = "p0"
  /\ turn.queue = << >>
  /\ turn' = [turn EXCEPT !.pc = "p1"]
  /\ UNCHANGED <<now, nextId, memory_units, preferences, entities, nextEnt, memory_relations,
                 contradictions, tx, rc, rt, res, bg, mg, decay_log, embedder, fn>>

\* Phase 1, retrieveMemories({queryText: userText}): the query finds memories
P1Retrieve ==
  /\ turn.pc = "p1"
  /\ Retrieve(turn.msg)
  /\ turn' = [turn EXCEPT !.pc = "p1_reinforce",
                          !.memories = RetrieveWithSpreadingActivation(turn.msg, RETRIEVAL_K)]
  /\ UNCHANGED <<tx, rc, res, bg, mg, decay_log, embedder, fn>>

\* Phase 1: the query finds nothing
P1RetrieveNone ==
  /\ turn.pc = "p1"
  /\ rt.pc = "idle"
  /\ RetrieveWithSpreadingActivation(turn.msg, RETRIEVAL_K) = {}
  /\ turn' = [turn EXCEPT !.pc = "p1_prefs"]
  /\ UNCHANGED <<now, nextId, memory_units, preferences, entities, nextEnt, memory_relations,
                 contradictions, tx, rc, rt, res, bg, mg, decay_log, embedder, fn>>

\* Phase 1: reinforceMemories for what was found
P1Reinforce ==
  /\ turn.pc = "p1_reinforce"
  /\ Reinforce
  /\ turn' = [turn EXCEPT !.pc = "p1_prefs"]
  /\ UNCHANGED <<tx, rc, res, bg, mg, decay_log, embedder, fn>>

\* Phase 1: getUserPreferences({}); Phase 2: runResponseAgentStreaming opens
\* a stream of total chunks
P1Preferences(total) ==
  /\ turn.pc = "p1_prefs"
  /\ turn' = [turn EXCEPT !.pc = "p2", !.total = total]
  /\ UNCHANGED <<now, nextId, memory_units, preferences, entities, nextEnt, memory_relations,
                 contradictions, tx, rc, rt, res, bg, mg, decay_log, embedder, fn>>

\* Phase 2: one chunk is forwarded
P2Chunk ==
  /\ turn.pc = "p2"
  /\ res[turn.n].chunks < turn.total
  /\ res' = [res EXCEPT ![turn.n].chunks = @ + 1]
  /\ UNCHANGED <<now, nextId, memory_units, preferences, entities, nextEnt, memory_relations,
                 contradictions, tx, rc, rt, turn, bg, mg, decay_log, embedder, fn>>

\* res.write({done: true}) without waiting for the end of the stream
P2DoneEarly ==
  /\ turn.pc = "p2"
  /\ res' = [res EXCEPT ![turn.n].done = TRUE]
  /\ turn' = [turn EXCEPT !.pc = "p2_end"]
  /\ UNCHANGED <<now, nextId, memory_units, preferences, entities, nextEnt, memory_relations,
                 contradictions, tx, rc, rt, bg, mg, decay_log, embedder, fn>>

\* the stream is complete: res.write({done: true})
P2Done ==
  /\ turn.pc = "p2"
  /\ res[turn.n].chunks = turn.total
  /\ res' = [res EXCEPT ![turn.n].done = TRUE]
  /\ turn' = [turn EXCEPT !.pc = "p2_end"]
  /\ UNCHANGED <<now, nextId, memory_units, preferences, entities, nextEnt, memory_relations,
                 contradictions, tx, rc, rt, bg, mg, decay_log, embedder, fn>>

\* res.end()
P2End ==
  /\ turn.pc = "p2_end"
  /\ res' = [res EXCEPT ![turn.n].ended = TRUE]
  /\ turn' = [turn EXCEPT !.pc = "p3_start"]
  /\ UNCHANGED <<now, nextId, memory_units, preferences, entities, nextEnt, memory_relations,
                 contradictions, tx, rc, rt, bg, mg, decay_log, embedder, fn>>

\* processMemoryAsync(userText, fullReply, memories, conversationId) is called
\* and not awaited; the handler returns
P3Start ==
  /\ turn.pc = "p3_start"
  /\ bg' = [bg EXCEPT ![turn.n] = [IdleBg EXCEPT !.pc = "extract", !.msg = turn.msg,
                                                 !.memories = turn.memories,
                                                 !.conversationId = turn.conversationId]]
  /\ turn' = [turn EXCEPT !.pc = "idle"]
  /\ UNCHANGED <<now, nextId, memory_units, preferences, entities, nextEnt, memory_relations,
                 contradictions, tx, rc, rt, res, mg, decay_log, embedder, fn>>

\* the handler's catch after the headers were sent: the error event is
\* written and the response ended; here the retrieval query throws
RetrievalFails ==
  /\ turn.pc = "p1"
  /\ res' = [res EXCEPT ![turn.n].error = TRUE, ![turn.n].ended = TRUE]
  /\ turn' = [turn EXCEPT !.pc = "idle"]
  /\ UNCHANGED <<now, nextId, memory_units, preferences, entities, nextEnt, memory_relations,
                 contradictions, tx, rc, rt, bg, mg, decay_log, embedder, fn>>

\* the catch writing the error event and then going on to the background
\* work, as the handler would without its early exit
StreamFailsThenExtract ==
  /\ turn.pc = "p2"
  /\ res' = [res EXCEPT ![turn.n].error = TRUE, ![turn.n].ended = TRUE]
  /\ turn' = [turn EXCEPT !.pc = "p3_start"]
  /\ UNCHANGED <<now, nextId, memory_units, preferences, entities, nextEnt, memory_relations,
                 contradictions, tx, rc, rt, bg, mg, decay_log, embedder, fn>>

\* the same catch, when the response stream throws
StreamFails ==
  /\ turn.pc = "p2"
  /\ res' = [res EXCEPT ![turn.n].error = TRUE, ![turn.n].ended = TRUE]
  /\ turn' = [turn EXCEPT !.pc = "idle"]
  /\ UNCHANGED <<now, nextId, memory_units, preferences, entities, nextEnt, memory_relations,
                 contradictions, tx, rc, rt, bg, mg, decay_log, embedder, fn>>

\* Phase 3, runMemoryAgent: the extractor proposes a memory, which may name
\* one of the retrieved memories in related_to
ExtractProposes(n) ==
  /\ bg[n].pc = "extract"
  /\ \E p \in DeepOf(bg[n].msg), r \in {{}} \cup {{m} : m \in bg[n].memories} :
       bg' = [bg EXCEPT ![n].pc = "store",
                        ![n].mem = ParseMemoryAgentResponse([p EXCEPT !.related_to = r])]
  /\ UNCHANGED <<now, nextId, memory_units, preferences, entities, nextEnt, memory_relations,
                 contradictions, tx, rc, rt, turn, res, mg, decay_log, embedder, fn>>

\* Phase 3: should_write is false, or the extractor throws into the caller's
\* catch
ExtractNothing(n) ==
  /\ bg[n].pc = "extract"
  /\ bg' = [bg EXCEPT ![n].pc = "finished"]
  /\ UNCHANGED <<now, nextId, memory_units, preferences, entities, nextEnt, memory_relations,
                 contradictions, tx, rc, rt, turn, res, mg, decay_log, embedder, fn>>

\* Phase 4: mem.source_conversation_id = conversationId; await insertMemoryUnit(mem)
P4Insert(n) ==
  /\ bg[n].pc = "store"
  /\ Begin(BgSlot(n), "deep", [bg[n].mem EXCEPT !.source_conversation_id = bg[n].conversationId])
  /\ bg' = [bg EXCEPT ![n].pc = "storing"]
  /\ UNCHANGED <<rc, rt, turn, res, mg, decay_log, embedder, fn>>

\* Phase 4: the insert returns or throws; either way the background work ends
P4Stored(n) ==
  /\ bg[n].pc = "storing"
  /\ Release(BgSlot(n))
  /\ bg' = [bg EXCEPT ![n].pc = "finished"]
  /\ UNCHANGED <<rc, rt, turn, res, mg, decay_log, embedder, fn>>

\* the chunks a response stream may carry
MaxChunks == 1

\* the server under a client that sends one message after another
NextTurn ==
  \/ \E msg \in Messages : ReceiveChat(msg)
  \/ P0Insert \/ P0Stored \/ P0Done
  \/ P1Retrieve \/ P1RetrieveNone \/ P1Reinforce
  \/ \E total \in 0..MaxChunks : P1Preferences(total)
  \/ P2Chunk \/ P2Done \/ P2End \/ P3Start
  \/ RetrievalFails \/ StreamFails
  \/ \E n \in Turns : ExtractProposes(n) \/ ExtractNothing(n) \/ P4Insert(n) \/ P4Stored(n)
  \/ \E s \in Slots : InsertStep(s)

SpecTurn == Init /\ [][NextTurn]_vars

\* ------------------------------------------------------------------------
\* The decay service over a store that holds memories
\* ------------------------------------------------------------------------
\* the row insertMemoryUnit committed for proposal p under id on day
StoredAt(id, p, day) == NewRow([IdleTx EXCEPT !.mem = p, !.id = id, !.created = day])

\* the store after "My name is Costa" and "I love coffee" went through the
\* instant extractor on day 0, nothing in flight
InitDecay ==
  /\ now = 0
  /\ nextId = 3
  /\ memory_units = <<StoredAt(1, InstantNameMem("Costa"), 0),
                      StoredAt(2, InstantPrefMem("coffee", "positive", 90), 0)>>
  /\ preferences = <<PreferenceRow([IdleTx EXCEPT !.mem = InstantPrefMem("coffee", "positive", 90),
                                                  !.id = 2],
                                   Pref("coffee", "positive", 90))>>
  /\ entities = <<[canonical_name |-> "Costa", aliases |-> {}, memory_ids |-> {1}]>>
  /\ nextEnt = 2
  /\ memory_relations = {}
  /\ contradictions = << >>
  /\ tx = [s \in Slots |-> IdleTx]
  /\ rc = IdleRc
  /\ rt = IdleRt
  /\ turn = IdleTurn
  /\ res = [n \in Turns |-> NoResponse]
  /\ bg = [n \in Turns |-> IdleBg]
  /\ mg = IdleMg
  /\ decay_log = << >>
  /\ embedder = EmbedderUnloaded
  /\ fn = IdleFn

\* the days between two looks at the clock
DecayStep == 7

\* startDecayService's timer and POST /decay/run, retrieval with its
\* reinforcement, and archival, as the days pass
NextDecay ==
  \/ AdvanceTime(DecayStep)
  \/ RunDecayUpdate
  \/ ArchiveLowImportanceMemories
  \/ \E q \in ApiQueries : RetrieveMemories(q)
  \/ ReinforceMemories

SpecDecay == InitDecay /\ [][NextDecay]_vars

\* ------------------------------------------------------------------------
\* Properties of the write pipeline (SpecInsert)
\* ------------------------------------------------------------------------
\* the id of a failed call appears nowhere in the store
NoTraceOf(t) ==
  /\ t.id \notin MemIds
  /\ \A i \in DOMAIN preferences : preferences[i].memory_id # t.id
  /\ t.createdEnts \cap EntIds = {}
  /\ t.aliasAdded = {}
  /\ \A e \in EntIds : t.id \notin entities[e].memory_ids
  /\ \A r \in memory_relations : r.source_id # t.id /\ r.target_id # t.id
  /\ \A i \in DOMAIN contradictions :
        contradictions[i].memory_a # t.id /\ contradictions[i].memory_b # t.id

\* C1: insertMemoryUnit is all-or-nothing: when a call has failed, whatever
\* step failed, the store holds no memory row, no preference row, no entity or
\* alias the call created, no memory_ids entry, no relation and no
\* contradiction row of that call.
InsertAllOrNothing ==
  \A s \in Slots : (tx[s].pc = "done" /\ tx[s].result = "error") => NoTraceOf(tx[s])

\* C4: tier bounds (I1): every active memory has floor(tier) <= confidence <=
\* ceiling(tier), whichever write path (instant, deep or direct) stored it.
TierBounds ==
  \A m \in ActiveIds :
     /\ memory_units[m].confidence >= TierFloor(memory_units[m].tier)
     /\ memory_units[m].confidence <= TierCeiling(memory_units[m].tier)

\* the active identity memories the identity query returns whose name differs,
\* case-insensitively, from name
DifferingIdentities(name) ==
  {m \in TopN({x \in ActiveIds : IdentityQueryMatches(memory_units[x].summary)}, IDENTITY_LIMIT) :
      /\ ExtractUserName(memory_units[m].summary) # "none"
      /\ Lower(ExtractUserName(memory_units[m].summary)) # Lower(name)}

\* the existing memories of the identity conflicts a call has detected
IdentityConflictsOf(t) ==
  {c.existing : c \in {d \in t.conflicts : d.type = "identity_conflict"}}

\* a pending contradictions row links a and b
PendingRowFor(a, b) ==
  \E i \in DOMAIN contradictions :
     /\ {contradictions[i].memory_a, contradictions[i].memory_b} = {a, b}
     /\ contradictions[i].resolution = "pending"

\* C5: identity contradiction (S3): an insert asserting name N2, made while an
\* active identity memory asserting a different name N1 is among the 5 most
\* recent identity memories, detects that memory as an identity conflict; and
\* the one COMMIT of that insert both makes the N1 memory inactive and stores
\* the N2 memory active with the N1 memory's id in its supersedes, with no
\* pending contradictions row for the pair.
IdentitySupersession ==
  [][\A s \in Slots :
       /\ (tx[s].pc = "detect_identity" /\ tx'[s].pc = "detect_similar"
             /\ ExtractUserName(tx[s].mem.summary) # "none")
            => DifferingIdentities(ExtractUserName(tx[s].mem.summary))
                 \subseteq IdentityConflictsOf(tx'[s])
       /\ (tx[s].pc = "commit" /\ tx'[s].result = "ok")
            => \A m \in IdentityConflictsOf(tx[s]) :
                  /\ tx[s].id \notin MemIds
                  /\ tx[s].id \in DOMAIN memory_units'
                  /\ memory_units'[tx[s].id].is_active
                  /\ m \in memory_units'[tx[s].id].supersedes
                  /\ ~memory_units'[m].is_active
                  /\ ~PendingRowFor(tx[s].id, m)']_vars

\* "My name is Costa" is stored, then "My name is Alex" commits over it
IdentitySupersessionWitness ==
  \E s \in Slots :
     /\ tx[s].pc = "done" /\ tx[s].result = "ok"
     /\ ExtractUserName(tx[s].mem.summary) = "Alex"
     /\ \E m \in IdentityConflictsOf(tx[s]) :
           /\ memory_units[m].summary = NameCosta
           /\ ~memory_units[m].is_active
           /\ memory_units[tx[s].id].is_active
           /\ m \in memory_units[tx[s].id].supersedes

\* C6: pending conflicts are recorded: once an insert whose detection returned
\* a pending conflict has committed, a contradictions row with resolution
\* pending links the new memory and the existing one, and both are active.
PendingConflictsRecorded ==
  \A s \in Slots : (tx[s].pc = "done" /\ tx[s].result = "ok") =>
     \A i \in DOMAIN tx[s].pending :
        /\ PendingRowFor(tx[s].id, tx[s].pending[i])
        /\ memory_units[tx[s].id].is_active

\* C9: preference supersession: there is at most one active preference row per
\* (subject, entity), a superseded row pointing at its successor.
OneActivePreference ==
  \A i, j \in DOMAIN preferences :
     (/\ i < j
      /\ preferences[i].subject = preferences[j].subject
      /\ preferences[i].entity = preferences[j].entity
      /\ preferences[j].is_active)
       => (~preferences[i].is_active /\ preferences[i].superseded_by # NoId)

\* ------------------------------------------------------------------------
\* Properties of the store under every operation (Spec)
\* ------------------------------------------------------------------------
\* C2: supersession soundness (I3): in every committed state, for every active
\* memory M, no id in M.supersedes refers to a memory that is active.
SupersessionSound ==
  \A m \in ActiveIds :
     \A a \in memory_units[m].supersedes \cap MemIds : ~memory_units[a].is_active

\* a contradiction was resolved by hand in favour of memory_a, which is active
\* and lists the deactivated memory_b
SupersessionSoundWitness ==
  /\ rc.pc = "idle"
  /\ \E i \in DOMAIN contradictions :
        /\ contradictions[i].resolution = "a_supersedes"
        /\ memory_units[contradictions[i].memory_a].is_active
        /\ contradictions[i].memory_b \in memory_units[contradictions[i].memory_a].supersedes
        /\ ~memory_units[contradictions[i].memory_b].is_active

\* C3: monotonic deactivation (I2): under every operation and interleaving, a
\* memory whose is_active is false never becomes active again, and the
\* supersedes set of a memory only grows.
MonotonicDeactivation ==
  [][\A m \in MemIds :
       /\ m \in DOMAIN memory_units'
       /\ ~memory_units[m].is_active => ~memory_units'[m].is_active
       /\ memory_units[m].supersedes \subseteq memory_units'[m].supersedes]_vars

\* a superseded memory is still inactive after a later insert has committed
\* and a decay sweep has run over the store
MonotonicDeactivationWitness ==
  \E a, b \in MemIds :
     /\ ~memory_units[a].is_active
     /\ a \in memory_units[b].supersedes
     /\ memory_units[b].is_active
     /\ memory_units[b].last_decay_at > memory_units[b].created_at

\* ------------------------------------------------------------------------
\* Properties of a turn (SpecTurn)
\* ------------------------------------------------------------------------
\* C7, as the specification states it: a memory written by the instant
\* extractor in Phase 0 of a turn is never among the memories Phase 1 retrieval
\* returns in that same turn.
SameTurnInvisible == turn.instant \cap turn.memories = {}

\* C7, as the code has it: Phase 1 retrieval runs after the Phase 0 commits and
\* reads them; while no more than RETRIEVAL_K memories are active it returns
\* every active memory, those Phase 0 of the same turn has just written as
\* well as those of earlier turns.
SameTurnVisible ==
  [][(turn.pc = "p1" /\ turn'.pc \in {"p1_reinforce", "p1_prefs"}
        /\ Cardinality(ActiveIds) <= RETRIEVAL_K)
       => /\ turn.instant \cap ActiveIds \subseteq turn'.memories
          /\ turn'.memories = ActiveIds]_vars

\* the second turn retrieves its own instant memory and the first turn's
SameTurnVisibleWitness ==
  /\ turn.n = 2
  /\ turn.pc = "p1_prefs"
  /\ turn.instant # {}
  /\ turn.instant \subseteq turn.memories
  /\ turn.memories \ turn.instant # {}

\* the phases of a turn that follow Phase 0
AfterPhase0 == {"p1", "p1_reinforce", "p1_prefs", "p2", "p2_end", "p3_start"}

\* C8: phase ordering within a turn: from the start of Phase 1 on, no Phase 0
\* insert is in flight and every one that succeeded is committed; Phase 3
\* starts, and a Phase 4 insert begins, only after the last chunk was
\* forwarded, the done event written and the response ended; the response
\* ends while the background work has not started, and the handler returns as
\* it starts it.
PhaseOrdering ==
  [][/\ turn.pc \in AfterPhase0 => (tx[FgSlot].pc = "idle" /\ turn.instant \subseteq MemIds)
     /\ \A n \in Turns :
          /\ (bg[n].pc = "idle" /\ bg'[n].pc # "idle")
               => /\ turn.n = n
                  /\ res[n].chunks = turn.total
                  /\ res[n].done /\ res[n].ended /\ ~res[n].error
                  /\ turn'.pc = "idle"
          /\ (tx[BgSlot(n)].pc = "idle" /\ tx'[BgSlot(n)].pc # "idle")
               => (res[n].done /\ res[n].ended /\ bg[n].pc = "store")
          /\ (~res[n].ended /\ res'[n].ended) => (bg[n].pc = "idle" /\ bg'[n].pc = "idle")]_vars

\* the response of a turn that stored an instant memory has ended, the
\* handler has returned, and the Phase 4 insert of that turn is in flight
PhaseOrderingWitness ==
  \E n \in Turns :
     /\ turn.n = n /\ turn.pc = "idle" /\ turn.instant # {}
     /\ res[n].chunks = MaxChunks /\ res[n].done /\ res[n].ended
     /\ bg[n].pc = "storing"
     /\ tx[BgSlot(n)].pc = "commit"

\* ------------------------------------------------------------------------
\* Properties of the decay service (SpecDecay)
\* ------------------------------------------------------------------------
\* C10: decay time-translation (L4): for a memory never accessed, the
\* current_importance a sweep leaves is base * exp(-lambda * days since
\* creation), floored, however many sweeps ran before it.
DecayTimeTranslation ==
  \A m \in ActiveIds :
     (/\ memory_units[m].access_count = 0
      /\ memory_units[m].last_accessed_at = NoTime
      /\ memory_units[m].last_decay_at > memory_units[m].created_at)
       => memory_units[m].current_importance =
            CalculateDecayedImportanceFromCreation(
              memory_units[m].base_importance, memory_units[m].created_at,
              memory_units[m].last_decay_at, memory_units[m].access_count,
              memory_units[m].last_accessed_at, memory_units[m].last_decay_at)

\* C11: decay floor (I6): whenever a decay update runs (the timer's sweep, the
\* sweep at start or POST /decay/run), every memory it touches is left with
\* current_importance >= IMPORTANCE_FLOOR, whatever its base importance, age,
\* access count and last access.
DecayFloor ==
  [][RunDecayUpdate =>
       \A m \in ActiveIds :
          /\ memory_units'[m].last_decay_at = now
          /\ memory_units'[m].current_importance >= IMPORTANCE_FLOOR]_vars

\* a sweep found a memory whose decayed value lies under the floor and left it
\* at the floor
DecayFloorWitness ==
  \E m \in ActiveIds :
     /\ memory_units[m].last_decay_at = now
     /\ now > memory_units[m].created_at
     /\ memory_units[m].current_importance = IMPORTANCE_FLOOR
     /\ memory_units[m].base_importance > IMPORTANCE_FLOOR

\* ------------------------------------------------------------------------
\* Properties of retrieval (Spec)
\* ------------------------------------------------------------------------
\* C12: reinforcement on retrieval (I7): a call of retrieveMemories that
\* returns the result set R adds exactly 1 to access_count and sets
\* last_accessed_at to now for every memory of R, leaves both fields of every
\* other memory as they were, and no step of any operation decreases either
\* field of a memory.
ReinforcementOnRetrieval ==
  [][/\ ReinforceMemories =>
          \A m \in MemIds :
             IF m \in rt.ids
             THEN /\ memory_units'[m].access_count = memory_units[m].access_count + 1
                  /\ memory_units'[m].last_accessed_at = now
             ELSE /\ memory_units'[m].access_count = memory_units[m].access_count
                  /\ memory_units'[m].last_accessed_at = memory_units[m].last_accessed_at
     /\ \A m \in MemIds :
          /\ memory_units'[m].access_count >= memory_units[m].access_count
          /\ memory_units'[m].last_accessed_at >= memory_units[m].last_accessed_at]_vars

\* a retrieval has returned and reinforced one memory while another memory,
\* inactive and so outside the result, was never touched
ReinforcementOnRetrievalWitness ==
  /\ rt.pc = "idle"
  /\ \E m \in ActiveIds :
       /\ memory_units[m].access_count = 1
       /\ memory_units[m].last_accessed_at = now
  /\ \E m \in MemIds \ ActiveIds :
       /\ memory_units[m].access_count = 0
       /\ memory_units[m].last_accessed_at = NoTime

\* ------------------------------------------------------------------------
\* Retrieval over a store that holds memories and relations
\* ------------------------------------------------------------------------
\* the store after "My name is Costa", "I love coffee", "My name is Alex" and
\* "I hate coffee" went through the instant extractor on day 0: the second
\* name superseded the first, the two preferences stand side by side, no
\* relation and no contradiction was written, nothing in flight
InitRetrieve ==
  /\ now = 0
  /\ nextId = 5
  /\ memory_units =
       <<[StoredAt(1, InstantNameMem("Costa"), 0) EXCEPT !.is_active = FALSE],
         StoredAt(2, InstantPrefMem("coffee", "positive", 90), 0),
         StoredAt(3, [InstantNameMem("Alex") EXCEPT !.supersedes = {1}], 0),
         StoredAt(4, InstantPrefMem("coffee", "negative", 90), 0)>>
  /\ preferences =
       <<PreferenceRow([IdleTx EXCEPT !.mem = InstantPrefMem("coffee", "positive", 90), !.id = 2],
                       Pref("coffee", "positive", 90)),
         PreferenceRow([IdleTx EXCEPT !.mem = InstantPrefMem("coffee", "negative", 90), !.id = 4],
                       Pref("coffee", "negative", 90))>>
  /\ entities = <<[canonical_name |-> "Costa", aliases |-> {}, memory_ids |-> {1}],
                  [canonical_name |-> "Alex", aliases |-> {}, memory_ids |-> {3}]>>
  /\ nextEnt = 3
  /\ memory_relations = {}
  /\ contradictions = << >>
  /\ tx = [s \in Slots |-> IdleTx]
  /\ rc = IdleRc
  /\ rt = IdleRt
  /\ turn = IdleTurn
  /\ res = [n \in Turns |-> NoResponse]
  /\ bg = [n \in Turns |-> IdleBg]
  /\ mg = IdleMg
  /\ decay_log = << >>
  /\ embedder = EmbedderUnloaded
  /\ fn = IdleFn

\* the rows memory_relations may hold in the model
MaxRel == 2

\* the weights a caller of createRelation passes, in hundredths
RelationWeights == {80}

\* createRelation(sourceId, targetId, relationType, weight, bidirectional)
\* called by a client of the graph module: one INSERT ... ON CONFLICT on the pool
CreateRelation(sourceId, targetId, relationType, weight, bidirectional) ==
  /\ RelationKeysExist(sourceId, targetId)
  /\ Cardinality(UpsertRelation(memory_relations, sourceId, targetId, relationType,
                                 weight, bidirectional)) <= MaxRel
  /\ memory_relations' = UpsertRelation(memory_relations, sourceId, targetId, relationType,
                                        weight, bidirectional)
  /\ UNCHANGED <<now, nextId, memory_units, preferences, entities, nextEnt, contradictions>>
  /\ UNCHANGED nonOp

\* the values of k a caller of retrieveMemories({queryText, k}) passes
RetrievalLimits == {1, 2}

\* the queries of the callers
RetrievalQueries == {"I hate coffee", "Who am I?"}

\* base_score of every active memory for the query
BaseScores(query) == [m \in MemIds |-> IF m \in ActiveIds THEN BaseScore(query, m) ELSE 0]

\* directIds: the rows of the direct query, ORDER BY base_score DESC LIMIT 2k
DirectIds(query, k) == TopByScore(ActiveIds, BaseScores(query), 2 * k)

\* spreadScores after spreadActivation: <<ids in the map, score by id>>
SpreadScores(query, k) ==
  SpreadActivation(DirectIds(query, k), DirectIds(query, k),
                   [m \in MemIds |-> IF m \in DirectIds(query, k) THEN BaseScores(query)[m] ELSE 0],
                   query, SPREADING_DEPTH, SPREADING_DECAY)

\* retrieveMemories({queryText, k}), first await, for a caller that passes k
RetrieveTopK(query, k) ==
  /\ rt.pc = "idle"
  /\ RetrieveWithSpreadingActivation(query, k) # {}
  /\ rt' = [pc |-> "reinforce", query |-> query,
            ids |-> RetrieveWithSpreadingActivation(query, k)]
  /\ UNCHANGED <<now, nextId, memory_units, preferences, entities, nextEnt, memory_relations, contradictions>>
  /\ UNCHANGED nonRt

NextRetrieve ==
  \/ \E a, b \in MemIds, w \in RelationWeights, d \in BOOLEAN :
        a # b /\ CreateRelation(a, b, "related_to", w, d)
  \/ \E id \in MemIds : DeactivateMemory(id)
  \/ \E q \in RetrievalQueries, k \in RetrievalLimits : RetrieveTopK(q, k)
  \/ ReinforceMemories

SpecRetrieve == InitRetrieve /\ [][NextRetrieve]_vars

\* ------------------------------------------------------------------------
\* Properties of retrieval over relations (SpecRetrieve)
\* ------------------------------------------------------------------------
\* C13: retrieval activeness (I5): every memory retrieve returns, a direct
\* candidate or one reached through spreading activation at depth 1 or 2, has
\* is_active = true when the query runs, and the result holds at most k
\* memories, each id once (the result is the values of a map keyed by id, kept
\* here as the set of its ids, so its size counts the entries returned).
RetrievalActiveness ==
  [][\A q \in RetrievalQueries, k \in RetrievalLimits :
        RetrieveTopK(q, k) =>
          /\ rt'.ids \subseteq ActiveIds
          /\ rt'.ids \subseteq SpreadScores(q, k)[1]
          /\ Cardinality(rt'.ids) <= k]_vars

\* a retrieval returned a memory whose score spreading activation raised at
\* depth 2, after depth 1 reached a memory outside the direct candidates, while
\* a relation of a direct candidate leads to an inactive memory
RetrievalActivenessWitness ==
  /\ rt.pc = "reinforce"
  /\ \E k \in RetrievalLimits :
       /\ rt.ids = RetrieveWithSpreadingActivation(rt.query, k)
       /\ \E m \in rt.ids : SpreadScores(rt.query, k)[2][m] > BaseScores(rt.query)[m]
       /\ SpreadScores(rt.query, k)[1] # DirectIds(rt.query, k)
       /\ \E r \in memory_relations :
            r.source_id \in DirectIds(rt.query, k) /\ r.target_id \notin ActiveIds

\* C14: spreading onto candidates (S5): a memory B among the top-2k direct
\* candidates that a relation of weight w links to another candidate A gets
\* cosine(q, B) * w * spread_decay added to its base score at depth 1, so its
\* final score is at least its base plus that term for every such relation.
SpreadOntoCandidates ==
  [][\A q \in RetrievalQueries, k \in RetrievalLimits :
        RetrieveTopK(q, k) =>
          \A r \in memory_relations :
             (/\ r.source_id \in DirectIds(q, k)
              /\ r.target_id \in DirectIds(q, k)
              /\ r.source_id # r.target_id)
               => SpreadScores(q, k)[2][r.target_id] >=
                    BaseScores(q)[r.target_id]
                      + (QuerySimilarity(q, memory_units[r.target_id].summary)
                           * r.weight * SPREADING_DECAY) \div 1000]_vars

\* ------------------------------------------------------------------------
\* Properties of the relations an insert writes (Spec, SpecInsert)
\* ------------------------------------------------------------------------
\* C15: relation auto-discovery: when insertMemoryUnit commits a memory whose
\* entities overlap those of another active memory with
\* |A n B| / max(|A|, |B|) >= 0.3, a bidirectional related_to relation from the
\* new memory to that memory exists after the commit, its weight the overlap.
RelationAutoDiscovery ==
  [][\A s \in Slots :
        Commit(s) =>
          \A m \in ActiveIds \ {tx[s].id} :
             (/\ memory_units'[m].is_active
              /\ OverlapWeight(tx[s].mem.entities, memory_units[m].entities)
                   >= DISCOVER_MIN_WEIGHT)
               => \E r \in memory_relations' :
                     /\ SameEdge(r, tx[s].id, m, "related_to")
                     /\ r.bidirectional
                     /\ r.weight = OverlapWeight(tx[s].mem.entities,
                                                 memory_units[m].entities)]_vars

\* C16: explicit relations: an insert of a proposal whose related_to lists ids
\* of stored memories does not fail on its relations, and once it has
\* committed a related_to relation from the new memory to each listed id
\* exists with weight at least 0.8; the endpoints of every relation are stored
\* memories.
ExplicitRelations ==
  /\ \A s \in Slots :
       (/\ tx[s].pc = "done"
        /\ tx[s].mem.related_to # {}
        /\ tx[s].mem.related_to \subseteq MemIds)
         => /\ tx[s].error # "foreign_key"
            /\ tx[s].result = "ok" =>
                  \A id \in tx[s].mem.related_to :
                     \E r \in memory_relations :
                        /\ SameEdge(r, tx[s].id, id, "related_to")
                        /\ r.weight >= EXPLICIT_RELATION_WEIGHT
  /\ \A r \in memory_relations : RelationKeysExist(r.source_id, r.target_id)

\* ------------------------------------------------------------------------
\* Properties of concurrent inserts (SpecInsert)
\* ------------------------------------------------------------------------
\* what the other connections read holds nothing of a call that has not
\* committed: no memory_ids entry with its id, no entity row and no alias it
\* wrote; and every inactive memory has its superseding memory stored
NoPartialInsertVisible ==
  /\ \A s \in Slots :
       tx[s].pc \notin {"idle", "done"} =>
         /\ \A e \in EntIds : tx[s].id \notin entities[e].memory_ids
         /\ tx[s].createdEnts \cap EntIds = {}
         /\ tx[s].aliasAdded = {}
  /\ \A m \in MemIds \ ActiveIds : \E n \in MemIds : m \in memory_units[n].supersedes

\* C17: insert isolation under concurrency: with the inserts of two turns
\* interleaved at any database suspension point, no state shows a partial
\* insert (an entity whose memory_ids holds the id of a memory not yet
\* committed, an entity or alias of an uncommitted call, a deactivated memory
\* whose superseding memory is not stored), and the identity conflicts a call
\* acts on are the ones the store holds when its transaction commits.
InsertIsolation ==
  [][/\ NoPartialInsertVisible'
     /\ \A s \in Slots :
          Commit(s) =>
            IdentityConflictsOf(tx[s]) =
              (IF ExtractUserName(tx[s].mem.summary) = "none" THEN {}
               ELSE DifferingIdentities(ExtractUserName(tx[s].mem.summary)))]_vars

\* ------------------------------------------------------------------------
\* Entity resolution under two concurrent writers
\* ------------------------------------------------------------------------
\* a proposal of the extractor that mentions one entity, with its entity_links
EntityProposal(mention, links) ==
  Proposal(LikesCoffee, "observed_fact", 80, <<mention>>, << >>, << >>, links, 5)

\* the proposals of the writers: a name in two letter cases, a nickname with
\* an explicit link to its canonical name, the nickname and the canonical name
\* in lower case, a common noun, and a mention that starts with a digit
EntityProposals ==
  {EntityProposal("Costa", << >>),
   EntityProposal("COSTA", << >>),
   EntityProposal("Al", <<[mention |-> "Al", canonical |-> "Alex"]>>),
   EntityProposal("al", << >>),
   EntityProposal("alex", << >>),
   EntityProposal("coffee", << >>),
   EntityProposal("2 cats", << >>)}

\* the writers store the proposals above next to the instant extractor's
\* memories and the extractor's payloads
NextEntity ==
  \/ \E s \in WriterSlots, p \in EntityProposals : InsertMemoryUnit(s, "deep", p)
  \/ \E s \in WriterSlots, p \in InstantProposals : InsertMemoryUnit(s, "instant", p)
  \/ \E s \in WriterSlots, p \in DirectProposals : InsertMemoryUnit(s, "direct", p)
  \/ \E s \in WriterSlots : InsertStep(s)
  \/ \E s \in WriterSlots : Return(s)

SpecEntity == Init /\ [][NextEntity]_vars

\* ------------------------------------------------------------------------
\* Properties of the entities (SpecEntity, SpecInsert)
\* ------------------------------------------------------------------------
\* C18: entity canonical uniqueness: in every reachable state, also after
\* concurrent inserts that resolve the same mention in different letter case
\* at the same time, no two entity rows have canonical names that are equal
\* under case-folding.
CanonicalUniqueness ==
  \A e, f \in EntIds :
     e # f => Lower(entities[e].canonical_name) # Lower(entities[f].canonical_name)

\* C19: entity membership integrity: in every committed state (no insert in
\* flight), after any sequence of successful and failed inserts, every id in
\* an entity's memory_ids is the id of a stored memory row.  memory_ids is
\* kept as the set of its elements: the UPDATE appends an id only WHERE NOT
\* (id = ANY(memory_ids)).
MembershipIntegrity ==
  (\A s \in Slots : tx[s].pc \in {"idle", "done"}) =>
     \A e \in EntIds : entities[e].memory_ids \subseteq MemIds

\* the confidence resolveEntity returns with each source, in hundredths
ResolutionConfidence(source) ==
  CASE source = "explicit_link" -> 95
    [] source = "exact_match" -> 100
    [] source = "alias_match" -> 90
    [] source = "new_entity" -> 70
    [] OTHER -> 0

\* the mention begins with an uppercase letter ("looks like a proper noun")
StartsUppercase(m) == m \in {"Costa", "COSTA", "Alex", "Al"}

\* C20: entity resolution order: resolve(mention, links) returns the first
\* applicable outcome of: explicit link for the mention (0.95), case-folded
\* canonical match (1.0), case-folded alias match (0.9), new entity when the
\* mention starts with an uppercase character (0.7), otherwise unresolved (0,
\* no entity id); a new entity row is created only in the explicit-link and
\* new-entity cases and only when no canonical match exists.
ResolutionOrder ==
  [][\A s \in Slots :
        EntFind(s) =>
          LET mention == tx[s].mem.entities[tx[s].i]
              links == tx[s].mem.entity_links
              r == ResolveEntity(mention, links)
              expected ==
                IF ExplicitLinks(links, mention) # {} THEN "explicit_link"
                ELSE IF CanonicalMatches(mention) # {} THEN "exact_match"
                ELSE IF AliasMatches(mention) # {} THEN "alias_match"
                ELSE IF StartsUppercase(mention) THEN "new_entity"
                ELSE "unresolved"
          IN /\ r.source = expected
             /\ ResolutionConfidence(r.source) = ResolutionConfidence(expected)
             /\ r.source = "unresolved" => r.id = NoId
             /\ r.op = "create" =>
                  /\ r.source \in {"explicit_link", "new_entity"}
                  /\ CanonicalMatches(r.name) = {}]_vars

\* ------------------------------------------------------------------------
\* Entity merging (memoryAgent.js mergeEntities, addEntityAlias), on the
\* resolver's pool: each query is a statement of its own
\* ------------------------------------------------------------------------
\* mergeEntities without the source's canonical name among the aliases
MergedAliasesWithoutName(source, target) == target.aliases \cup source.aliases

\* const allAliases = [...new Set([...target.aliases, ...source.aliases,
\* source.canonical_name])]
MergedAliases(source, target) ==
  target.aliases \cup source.aliases \cup {source.canonical_name}

\* const allMemoryIds = [...new Set([...target.memory_ids, ...source.memory_ids])]
MergedMemoryIds(source, target) == target.memory_ids \cup source.memory_ids

\* the target row the UPDATE of mergeEntities writes
MergedRow(source, target) ==
  [target EXCEPT !.aliases = MergedAliases(source, target),
                 !.memory_ids = MergedMemoryIds(source, target)]

\* the ids a caller of mergeEntities may name: the rows of the table and one
\* id that is no row
MergeIds == EntIds \cup {nextEnt}

\* mergeEntities(sourceId, targetId): the two SELECTs of Promise.all find both rows
MergeSelect(sourceId, targetId) ==
  /\ mg.pc = "idle"
  /\ sourceId \in EntIds
  /\ targetId \in EntIds
  /\ mg' = [pc |-> "update", sourceId |-> sourceId, targetId |-> targetId,
            source |-> entities[sourceId], target |-> entities[targetId]]
  /\ UNCHANGED <<now, nextId, memory_units, preferences, entities, nextEnt, memory_relations,
                 contradictions, tx, rc, rt, turn, res, bg, decay_log, embedder, fn>>

\* if (!source.rows[0] || !target.rows[0]) throw new Error("Entity not found")
MergeNotFound(sourceId, targetId) ==
  /\ mg.pc = "idle"
  /\ sourceId \notin EntIds \/ targetId \notin EntIds
  /\ mg' = [IdleMg EXCEPT !.pc = "thrown", !.sourceId = sourceId, !.targetId = targetId]
  /\ UNCHANGED <<now, nextId, memory_units, preferences, entities, nextEnt, memory_relations,
                 contradictions, tx, rc, rt, turn, res, bg, decay_log, embedder, fn>>

\* UPDATE entities SET aliases = $2, memory_ids = $3 WHERE id = $1, with the
\* arrays computed from the rows selected before
MergeUpdate ==
  /\ mg.pc = "update"
  /\ entities' = [e \in EntIds |->
                    IF e = mg.targetId
                    THEN [entities[e] EXCEPT !.aliases = MergedAliases(mg.source, mg.target),
                                             !.memory_ids = MergedMemoryIds(mg.source, mg.target)]
                    ELSE entities[e]]
  /\ mg' = [mg EXCEPT !.pc = "delete"]
  /\ UNCHANGED <<now, nextId, memory_units, preferences, nextEnt, memory_relations,
                 contradictions, tx, rc, rt, turn, res, bg, decay_log, embedder, fn>>

\* DELETE FROM entities WHERE id = $1; return {merged: true, targetId}
MergeDelete ==
  /\ mg.pc = "delete"
  /\ entities' = [e \in EntIds \ {mg.sourceId} |-> entities[e]]
  /\ mg' = [mg EXCEPT !.pc = "merged"]
  /\ UNCHANGED <<now, nextId, memory_units, preferences, nextEnt, memory_relations,
                 contradictions, tx, rc, rt, turn, res, bg, decay_log, embedder, fn>>

\* the DELETE is rejected (the connection is lost): mergeEntities throws
MergeDeleteFails ==
  /\ mg.pc = "delete"
  /\ mg' = [mg EXCEPT !.pc = "thrown"]
  /\ UNCHANGED <<now, nextId, memory_units, preferences, entities, nextEnt, memory_relations,
                 contradictions, tx, rc, rt, turn, res, bg, decay_log, embedder, fn>>

\* the caller of mergeEntities has its result or its error
MergeReturn ==
  /\ mg.pc \in {"merged", "thrown"}
  /\ mg' = IdleMg
  /\ UNCHANGED <<now, nextId, memory_units, preferences, entities, nextEnt, memory_relations,
                 contradictions, tx, rc, rt, turn, res, bg, decay_log, embedder, fn>>

\* the aliases a caller of addEntityAlias adds
NewAliases == {"Al"}

\* addEntityAlias(entityId, alias): UPDATE entities SET aliases =
\* array_append(aliases, $2) WHERE id = $1 AND NOT ($2 = ANY(aliases))
AddEntityAlias(entityId, alias) ==
  /\ entityId \in EntIds
  /\ alias \notin entities[entityId].aliases
  /\ entities' = [e \in EntIds |->
                    IF e = entityId THEN [entities[e] EXCEPT !.aliases = @ \cup {alias}]
                    ELSE entities[e]]
  /\ UNCHANGED <<now, nextId, memory_units, preferences, nextEnt, memory_relations,
                 contradictions, tx, rc, rt, turn, res, bg, mg, decay_log, embedder, fn>>

\* the proposals of the writer next to the merges: two names, and what makes
\* every step of an insert happen
MergeWrites ==
  {<<"instant", InstantNameMem("Costa")>>,
   <<"instant", InstantNameMem("Alex")>>,
   <<"instant", InstantPrefMem("coffee", "positive", 90)>>,
   <<"instant", InstantPrefMem("coffee", "negative", 90)>>,
   <<"deep", ParseMemoryAgentResponse(CorrectionPayload)>>}
    \cup {<<"direct", [LinkedNamePayload EXCEPT !.related_to = {m}]>> : m \in MemIds}

\* one writer, one caller of mergeEntities and one caller of addEntityAlias
NextMerge ==
  \/ \E s \in ApiSlots, w \in MergeWrites : InsertMemoryUnit(s, w[1], w[2])
  \/ \E s \in ApiSlots : InsertStep(s)
  \/ \E s \in ApiSlots : Return(s)
  \/ \E a \in EntIds, b \in EntIds : a # b /\ MergeSelect(a, b)
  \/ \E a \in MergeIds, b \in MergeIds : a # b /\ MergeNotFound(a, b)
  \/ MergeUpdate
  \/ MergeDelete
  \/ MergeDeleteFails
  \/ MergeReturn
  \/ \E e \in EntIds, a \in NewAliases : AddEntityAlias(e, a)

SpecMerge == Init /\ [][NextMerge]_vars

\* the UPDATE of the call in flight has been applied to the target row
TargetUpdated ==
  \/ mg.pc \in {"delete", "merged"}
  \/ mg.pc = "thrown" /\ mg.source # NoEntity

\* C21: mergeEntities(source, target) is atomic: in no state has the target
\* row been updated by the merge while the source row still exists; once the
\* target holds the union of the aliases, the source's canonical name and the
\* union of memory_ids, the source row is gone, and otherwise both rows are
\* as they were.
MergeAtomicity == TargetUpdated => mg.sourceId \notin EntIds

\* C21, content: the row mergeEntities deletes holds no alias and no memory
\* id that the target row lacks, and its UPDATE removes nothing from the
\* target row.
MergeKeepsContent ==
  [][/\ mg.pc = "delete" /\ mg'.pc = "merged" =>
          /\ entities[mg.sourceId].aliases \subseteq entities'[mg.targetId].aliases
          /\ entities[mg.sourceId].memory_ids \subseteq entities'[mg.targetId].memory_ids
     /\ mg.pc = "update" /\ mg'.pc = "delete" =>
          /\ entities[mg.targetId].aliases \subseteq entities'[mg.targetId].aliases
          /\ entities[mg.targetId].memory_ids \subseteq entities'[mg.targetId].memory_ids]_vars

\* every name of an entity row: its canonical name and its aliases
NamesOf(e) == {e.canonical_name} \cup e.aliases

\* C22: merging X into Y and merging Y into X leave surviving rows with the
\* same memory_ids and the same set of names (canonical name and aliases
\* together); the canonical name that survives may differ.
MergeCommutativity ==
  \A x \in EntIds, y \in EntIds :
    x # y =>
      /\ MergedRow(entities[x], entities[y]).memory_ids
           = MergedRow(entities[y], entities[x]).memory_ids
      /\ NamesOf(MergedRow(entities[x], entities[y]))
           = NamesOf(MergedRow(entities[y], entities[x]))

\* C22, witness: a merge has run to its end, the surviving row holds the
\* source's memories and its canonical name as an alias, and the merge in the
\* other direction would have left other aliases
MergeCommutativityWitness ==
  /\ mg.pc = "merged"
  /\ mg.targetId \in EntIds
  /\ entities[mg.targetId] = MergedRow(mg.source, mg.target)
  /\ mg.source.memory_ids # {}
  /\ MergedRow(mg.source, mg.target).aliases # MergedRow(mg.target, mg.source).aliases
  /\ NamesOf(MergedRow(mg.source, mg.target)) = NamesOf(MergedRow(mg.target, mg.source))

\* C22 as stated: merging X into Y and merging Y into X leave surviving rows
\* with identical memory_ids and identical aliases.
MergeCommutesOnAliases ==
  \A x \in EntIds, y \in EntIds :
    x # y =>
      /\ MergedRow(entities[x], entities[y]).memory_ids
           = MergedRow(entities[y], entities[x]).memory_ids
      /\ MergedRow(entities[x], entities[y]).aliases
           = MergedRow(entities[y], entities[x]).aliases

\* ------------------------------------------------------------------------
\* Resolution of contradictions by the store's client
\* (POST /contradictions/:id/resolve, GET /contradictions)
\* ------------------------------------------------------------------------
\* getPendingContradictions: SELECT c.* FROM contradictions c JOIN memory_units
\* ma ... JOIN memory_units mb ... WHERE c.resolution = 'pending'
GetPendingContradictions ==
  {id \in DOMAIN contradictions :
     /\ contradictions[id].resolution = "pending"
     /\ ContradictionKeysExist(contradictions[id].memory_a, contradictions[id].memory_b)}

\* the ids a client puts in the path: the rows of the table and one id that
\* is no row now and never becomes one (ids are random UUIDs)
ResolveIds == DOMAIN contradictions \cup {MaxContra + 1}

\* the resolutions a client puts in the body: those a resolved row can carry,
\* and one outside the CHECK list
ResolveRequests == (Resolutions \ {"pending"}) \cup {"undo"}

\* the client of the contradiction endpoints over a store that holds two
\* memories, as the days pass
NextResolve ==
  \/ \E a, b \in MemIds : a # b /\ RecordContradiction(a, b)
  \/ \E id \in ResolveIds, r \in ResolveRequests : ResolveUpdate(id, r)
  \/ ResolveSelect
  \/ ResolveDeactivate
  \/ ResolveAppend
  \/ AdvanceTime(DecayStep)

SpecResolve == InitDecay /\ [][NextResolve]_vars

\* C23: resolve(conflict_id, a_supersedes) deactivates memory_b and appends
\* its id to memory_a.supersedes, b_supersedes does the mirror image; both
\* stamp resolved_at and store the resolution, and the row leaves the pending
\* list. coexist, merged and user_resolved change no memory; an unknown
\* conflict id or a resolution outside the list changes no memory.
ResolutionEffects ==
  [][/\ rc.pc = "append" /\ rc'.pc = "idle" =>
          LET c == contradictions'[rc.id]
              winner == IF rc.resolution = "a_supersedes" THEN c.memory_a ELSE c.memory_b
              loser == IF rc.resolution = "a_supersedes" THEN c.memory_b ELSE c.memory_a
          IN /\ ~memory_units'[loser].is_active
             /\ loser \in memory_units'[winner].supersedes
             /\ c.resolution = rc.resolution
             /\ c.resolved_at # NoTime
             /\ rc.id \notin GetPendingContradictions'
     /\ rc.pc = "idle" /\ rc'.pc = "select" /\ rc'.id \in DOMAIN contradictions =>
          /\ contradictions'[rc'.id].resolution = rc'.resolution
          /\ contradictions'[rc'.id].resolved_at = now
          /\ rc'.id \notin GetPendingContradictions'
     /\ memory_units' # memory_units =>
          /\ rc.resolution \in {"a_supersedes", "b_supersedes"}
          /\ rc.id \in DOMAIN contradictions
          /\ rc.pc \in {"deactivate", "append"}
     /\ rc.pc = "idle" /\ rc'.pc = "idle" => contradictions' = contradictions
                                              \/ \E a, b \in MemIds :
                                                   contradictions' = Append(contradictions,
                                                     ContradictionRow(a, b, "pending"))]_vars

\* C23, witness: a pending conflict between two active memories has been
\* resolved with a_supersedes: memory_b is inactive and in memory_a.supersedes,
\* the row carries the resolution and its time and is not pending
ResolutionEffectsWitness ==
  /\ rc.pc = "idle"
  /\ \E id \in DOMAIN contradictions :
       LET c == contradictions[id]
       IN /\ c.resolution = "a_supersedes"
          /\ c.resolved_at = DecayStep
          /\ ~memory_units[c.memory_b].is_active
          /\ memory_units[c.memory_a].is_active
          /\ c.memory_b \in memory_units[c.memory_a].supersedes
          /\ id \notin GetPendingContradictions

\* ------------------------------------------------------------------------
\* Phase 3 request by request (memoryAgent.js runMemoryAgent,
\* runLocalMemoryAgent, runCloudMemoryAgent)
\* ------------------------------------------------------------------------
\* what an extractor request of a background task comes back with: content
\* that parseMemoryAgentResponse rejects, a payload with should_write false,
\* a request that throws, or a payload to write, which may name one of the
\* retrieved memories in related_to
RepliesTo(b) ==
  {[kind |-> k, data |-> NoProposal] : k \in {"invalid", "no_write", "error"}}
    \cup {[kind |-> "write", data |-> [p EXCEPT !.related_to = r]] :
            p \in DeepOf(b.msg), r \in {{}} \cup {{m} : m \in b.memories}}

\* parseMemoryAgentResponse(content).ok
ParseOk(reply) == reply.kind \in {"no_write", "write"}

\* processMemoryAsync after runMemoryAgent has returned mem: if
\* (!mem.should_write) return {stored: false}, else the insert of Phase 4
Extracted(b, reply) ==
  IF reply.kind = "no_write"
  THEN [b EXCEPT !.pc = "finished", !.calls = @ + 1]
  ELSE [b EXCEPT !.pc = "store", !.calls = @ + 1, !.raw = reply.data.confidence,
                 !.mem = ParseMemoryAgentResponse(reply.data)]

\* runMemoryAgent: if (config.USE_LOCAL_MEMORY_LLM && isOllamaAvailable())
\* the local extractor is tried first, else the cloud extractor is called
RunMemoryAgent(n, local) ==
  /\ bg[n].pc = "extract"
  /\ bg' = [bg EXCEPT ![n].pc = IF local THEN "local_first" ELSE "cloud_first"]
  /\ UNCHANGED <<now, nextId, memory_units, preferences, entities, nextEnt, memory_relations,
                 contradictions, tx, rc, rt, turn, res, mg, decay_log, embedder, fn>>

\* runLocalMemoryAgent: one ollama.chat.completions.create and its parse; the
\* retry after a first parse failure; after the second, or when the request
\* throws, the error is caught by runMemoryAgent, which goes on to the cloud
RunLocalMemoryAgent(n, reply) ==
  /\ bg[n].pc \in {"local_first", "local_retry"}
  /\ bg' = [bg EXCEPT ![n] =
              IF ParseOk(reply) THEN Extracted(bg[n], reply)
              ELSE IF reply.kind = "invalid" /\ bg[n].pc = "local_first"
                THEN [bg[n] EXCEPT !.pc = "local_retry", !.calls = @ + 1]
              ELSE [bg[n] EXCEPT !.pc = "cloud_first", !.calls = @ + 1]]
  /\ UNCHANGED <<now, nextId, memory_units, preferences, entities, nextEnt, memory_relations,
                 contradictions, tx, rc, rt, turn, res, mg, decay_log, embedder, fn>>

\* runCloudMemoryAgent: one grok.chat.completions.create and its parse; the
\* retry after a first parse failure; after the second, or when the request
\* throws, processMemoryAsync rejects and the caller's catch logs the error
RunCloudMemoryAgent(n, reply) ==
  /\ bg[n].pc \in {"cloud_first", "cloud_retry"}
  /\ bg' = [bg EXCEPT ![n] =
              IF ParseOk(reply) THEN Extracted(bg[n], reply)
              ELSE IF reply.kind = "invalid" /\ bg[n].pc = "cloud_first"
                THEN [bg[n] EXCEPT !.pc = "cloud_retry", !.calls = @ + 1]
              ELSE [bg[n] EXCEPT !.pc = "failed", !.calls = @ + 1]]
  /\ UNCHANGED <<now, nextId, memory_units, preferences, entities, nextEnt, memory_relations,
                 contradictions, tx, rc, rt, turn, res, mg, decay_log, embedder, fn>>

\* the server under a client that sends one message after another, with the
\* extraction of Phase 3 followed request by request
NextExtract ==
  \/ \E msg \in Messages : ReceiveChat(msg)
  \/ P0Insert \/ P0Stored \/ P0Done
  \/ P1Retrieve \/ P1RetrieveNone \/ P1Reinforce
  \/ \E total \in 0..MaxChunks : P1Preferences(total)
  \/ P2Chunk \/ P2Done \/ P2End \/ P3Start
  \/ RetrievalFails \/ StreamFails
  \/ \E n \in Turns, local \in BOOLEAN : RunMemoryAgent(n, local)
  \/ \E n \in Turns : \E reply \in RepliesTo(bg[n]) : RunLocalMemoryAgent(n, reply)
  \/ \E n \in Turns : \E reply \in RepliesTo(bg[n]) : RunCloudMemoryAgent(n, reply)
  \/ \E n \in Turns : P4Insert(n) \/ P4Stored(n)
  \/ \E s \in Slots : InsertStep(s)

SpecExtract == Init /\ [][NextExtract]_vars

\* C24: the extractor is called at most twice per turn, one call and one
\* retry; a turn whose second response is invalid as well writes no memory.
ExtractorRetryOnce ==
  \A n \in Turns :
    /\ bg[n].calls <= 2
    /\ bg[n].pc \in {"store", "storing"} => bg[n].calls <= 2

\* C25: an error raised in Phase 0 (the instant write, embedding or storage
\* failure included) or in Phase 1 (retrieval or the preference lookup) ends
\* the turn as an HTTP 500 with a JSON body: the SSE headers have not been
\* sent, no stream is started and no response generation is attempted.
EarlyErrorsBeforeStream ==
  [][/\ (turn.pc = "p0_wait" /\ tx[FgSlot].result = "error" /\ turn'.pc # "p0_wait")
          => (turn'.pc = "idle" /\ ~res'[turn.n].headers)
     /\ (turn.pc = "p1" /\ turn'.pc = "idle")
          => ~res'[turn.n].headers]_vars

\* C26: every memory stored by Phase 4 of a turn that came with a
\* conversation_id has source_conversation_id equal to that conversation_id.
ConversationLinked ==
  [][\A n \in Turns :
       (tx[BgSlot(n)].pc = "commit" /\ tx'[BgSlot(n)].result = "ok"
          /\ bg[n].pc = "storing" /\ bg[n].conversationId # NoConversation)
         => /\ tx[BgSlot(n)].id \in DOMAIN memory_units'
            /\ memory_units'[tx[BgSlot(n)].id].source_conversation_id = bg[n].conversationId]_vars

\* ------------------------------------------------------------------------
\* The embedding model (embeddings.js): initEmbedder and embedText under
\* concurrent callers
\* ------------------------------------------------------------------------
\* the calls each caller makes
MaxEmbedCalls == 2

\* the state of the module, next to the unchanged store
EmbedderSteps(e) ==
  /\ embedder' = e
  /\ UNCHANGED <<now, nextId, memory_units, preferences, entities, nextEnt, memory_relations,
                 contradictions, tx, rc, rt, turn, res, bg, mg, decay_log, fn>>

\* initEmbedder with no test of isInitializing: every call that finds no
\* model starts a load
InitEmbedderUnguarded(c) ==
  /\ embedder.call[c].pc = "idle"
  /\ embedder.call[c].calls < MaxEmbedCalls
  /\ IF embedder.localEmbedder # NoPipeline
     THEN EmbedderSteps([embedder EXCEPT !.call[c].pc = "resolved",
                                         !.call[c].embedder = embedder.localEmbedder])
     ELSE EmbedderSteps([embedder EXCEPT !.isInitializing = TRUE,
                                         !.promises = Append(@, "pending"),
                                         !.initPromise = Len(embedder.promises) + 1,
                                         !.call[c].pc = "await_own",
                                         !.call[c].awaits = Len(embedder.promises) + 1])

\* embedText calls initEmbedder, which runs up to its first await in one
\* piece: if (localEmbedder) return localEmbedder; if (isInitializing) return
\* initPromise; isInitializing = true; initPromise = pipeline(...)
InitEmbedder(c) ==
  /\ embedder.call[c].pc = "idle"
  /\ embedder.call[c].calls < MaxEmbedCalls
  /\ IF embedder.localEmbedder # NoPipeline
     THEN EmbedderSteps([embedder EXCEPT !.call[c].pc = "resolved",
                                         !.call[c].embedder = embedder.localEmbedder])
     ELSE IF embedder.isInitializing
     THEN EmbedderSteps([embedder EXCEPT !.call[c].pc = "await_shared",
                                         !.call[c].awaits = embedder.initPromise])
     ELSE EmbedderSteps([embedder EXCEPT !.isInitializing = TRUE,
                                         !.promises = Append(@, "pending"),
                                         !.initPromise = Len(embedder.promises) + 1,
                                         !.call[c].pc = "await_own",
                                         !.call[c].awaits = Len(embedder.promises) + 1])

\* the promise of pipeline("feature-extraction", EMBED_MODEL) is fulfilled
PipelineLoads(p) ==
  /\ p \in DOMAIN embedder.promises
  /\ embedder.promises[p] = "pending"
  /\ EmbedderSteps([embedder EXCEPT !.promises[p] = "loaded"])

\* the promise is rejected: the model cannot be fetched or read
PipelineFails(p) ==
  /\ p \in DOMAIN embedder.promises
  /\ embedder.promises[p] = "pending"
  /\ EmbedderSteps([embedder EXCEPT !.promises[p] = "rejected"])

\* localEmbedder = await initPromise; isInitializing = false; return localEmbedder
InitEmbedderLoaded(c) ==
  /\ embedder.call[c].pc = "await_own"
  /\ embedder.promises[embedder.call[c].awaits] = "loaded"
  /\ EmbedderSteps([embedder EXCEPT !.localEmbedder = embedder.call[c].awaits,
                                    !.isInitializing = FALSE,
                                    !.call[c].pc = "resolved",
                                    !.call[c].embedder = embedder.call[c].awaits])

\* the caller that was handed initPromise gets its value
InitPromiseResolved(c) ==
  /\ embedder.call[c].pc = "await_shared"
  /\ embedder.promises[embedder.call[c].awaits] = "loaded"
  /\ EmbedderSteps([embedder EXCEPT !.call[c].pc = "resolved",
                                    !.call[c].embedder = embedder.call[c].awaits])

\* the await of a rejected promise throws in initEmbedder and so in embedText:
\* localEmbedder stays null and isInitializing stays true
InitEmbedderRejected(c) ==
  /\ embedder.call[c].pc \in {"await_own", "await_shared"}
  /\ embedder.promises[embedder.call[c].awaits] = "rejected"
  /\ EmbedderSteps([embedder EXCEPT !.call[c].pc = "idle",
                                    !.call[c].awaits = NoPipeline,
                                    !.call[c].calls = @ + 1])

\* embedText: const output = await embedder(text, ...); return
\* Array.from(output.data): the vector comes from the instance it was handed
EmbedVector(c) ==
  /\ embedder.call[c].pc = "resolved"
  /\ EmbedderSteps([embedder EXCEPT !.call[c].pc = "idle",
                                    !.call[c].awaits = NoPipeline,
                                    !.call[c].vector = embedder.call[c].embedder,
                                    !.call[c].calls = @ + 1])

\* the callers of embedText (the preload at start, inserts, retrievals,
\* contradiction detection) in any interleaving
NextEmbed ==
  \/ \E c \in EmbedCallers : InitEmbedder(c)
  \/ \E p \in 1..Cardinality(EmbedCallers) : PipelineLoads(p)
  \/ \E p \in 1..Cardinality(EmbedCallers) : PipelineFails(p)
  \/ \E c \in EmbedCallers : InitEmbedderLoaded(c)
  \/ \E c \in EmbedCallers : InitPromiseResolved(c)
  \/ \E c \in EmbedCallers : InitEmbedderRejected(c)
  \/ \E c \in EmbedCallers : EmbedVector(c)

SpecEmbed == Init /\ [][NextEmbed]_vars

\* C27: in every interleaving of concurrent embedText and initEmbedder calls
\* the model is loaded at most once, and every call that returned a vector
\* used the one shared instance.
EmbedderSingleLoad ==
  /\ Len(embedder.promises) <= 1
  /\ embedder.localEmbedder \in {NoPipeline, 1}
  /\ \A c \in EmbedCallers :
       /\ embedder.call[c].embedder \in {NoPipeline, 1}
       /\ embedder.call[c].vector # NoPipeline =>
            /\ embedder.promises = <<"loaded">>
            /\ \A d \in EmbedCallers :
                 embedder.call[d].vector \in {NoPipeline, embedder.call[c].vector}

\* C27, witness: three calls were made before the model was there; the one
\* that started the load and one that was handed its promise have returned
\* vectors, the third still waits on the same promise
EmbedderSingleLoadWitness ==
  /\ Len(embedder.promises) = 1
  /\ \E c, d, e \in EmbedCallers :
       /\ c # d /\ d # e /\ c # e
       /\ embedder.call[c].vector = 1 /\ embedder.call[c].calls = 1
       /\ embedder.call[d].vector = 1 /\ embedder.call[d].calls = 1
       /\ embedder.call[e].pc = "await_shared" /\ embedder.call[e].awaits = 1

\* C28: every runDecayUpdate that changes the current_importance of a memory
\* appends a decay_log entry with its memory_id, old_importance and
\* new_importance (and the decay factor and reinforcement applied); entries
\* of decay_log are never modified or removed.
DecayLogged ==
  [][/\ \A m \in MemIds :
          memory_units'[m].current_importance # memory_units[m].current_importance =>
            \E i \in DOMAIN decay_log' \ DOMAIN decay_log :
              /\ decay_log'[i].memory_id = m
              /\ decay_log'[i].old_importance = memory_units[m].current_importance
              /\ decay_log'[i].new_importance = memory_units'[m].current_importance
     /\ Len(decay_log') >= Len(decay_log)
     /\ \A i \in DOMAIN decay_log : decay_log'[i] = decay_log[i]]_vars

\* ------------------------------------------------------------------------
\* The decay service as the days pass (decayService.js startDecayService)
\* ------------------------------------------------------------------------
\* an extractor payload of the lowest importance the schema allows
MinorPayload == [ParseMemoryAgentResponse(GuessPayload) EXCEPT !.importance = 1]

\* the store after "My name is Costa" went through the instant extractor and
\* a guess of importance 1 through the extractor on day 0, nothing in flight
InitService ==
  /\ now = 0
  /\ nextId = 3
  /\ memory_units = <<StoredAt(1, InstantNameMem("Costa"), 0), StoredAt(2, MinorPayload, 0)>>
  /\ preferences = << >>
  /\ entities = <<[canonical_name |-> "Costa", aliases |-> {}, memory_ids |-> {1}]>>
  /\ nextEnt = 2
  /\ memory_relations = {}
  /\ contradictions = << >>
  /\ tx = [s \in Slots |-> IdleTx]
  /\ rc = IdleRc
  /\ rt = IdleRt
  /\ turn = IdleTurn
  /\ res = [n \in Turns |-> NoResponse]
  /\ bg = [n \in Turns |-> IdleBg]
  /\ mg = IdleMg
  /\ decay_log = << >>
  /\ embedder = EmbedderUnloaded
  /\ fn = IdleFn

\* startDecayService: runDecayUpdate at once and on every tick of
\* setInterval; archiveLowImportanceMemories is exported and called by nothing
\* in the service, so a call of it may happen and nothing makes it happen
NextService ==
  \/ AdvanceTime(DecayStep)
  \/ RunDecayUpdate
  \/ ArchiveLowImportanceMemories
  \/ \E q \in ApiQueries : RetrieveMemories(q)
  \/ ReinforceMemories

\* the running service: the clock goes on and the timer fires
SpecService ==
  /\ InitService
  /\ [][NextService]_vars
  /\ WF_vars(AdvanceTime(DecayStep))
  /\ WF_vars(RunDecayUpdate)

\* C29: once the decay service is running, every active memory with
\* current_importance < 1.5 and age > 90 days is eventually deactivated (its
\* row kept), and archival deactivates no memory with current_importance >=
\* 1.5 or age <= 90 days.
ArchivalHappens ==
  /\ \A m \in 1..MaxMem : (m \in ArchiveRows) ~> (m \in MemIds /\ m \notin ActiveIds)
  /\ [][\A m \in MemIds :
          (memory_units[m].is_active /\ ~memory_units'[m].is_active)
            => /\ memory_units[m].current_importance < ARCHIVE_THRESHOLD
               /\ now - memory_units[m].created_at > ARCHIVE_MAX_AGE_DAYS
               /\ m \in DOMAIN memory_units']_vars

\* what the running service does on its own, whatever the day: a step of the
\* clock or of the timer's runDecayUpdate leaves is_active of every row as it
\* was, so a row that is left active on day MaxDay is left active on every
\* later day as well
ServiceKeepsActive ==
  [][(AdvanceTime(DecayStep) \/ RunDecayUpdate)
       => \A m \in MemIds : memory_units'[m].is_active = memory_units[m].is_active]_vars

\* ------------------------------------------------------------------------
\* Confidence bounds on what the extractor returns (beliefTiering.js
\* enforceConfidenceBounds, called by parseMemoryAgentResponse)
\* ------------------------------------------------------------------------
\* the cells of the grid of confidences in [0,1]
ConfidenceGrid == 20

Confidences == {(100 * i) \div ConfidenceGrid : i \in 0..ConfidenceGrid}

\* what an extractor request comes back with: its payload with any tier and
\* any confidence, content that is not valid, or a request that throws
TieredReplies ==
  {[kind |-> k, data |-> NoProposal] : k \in {"invalid", "error"}}
    \cup {[kind |-> "write", data |-> [GuessPayload EXCEPT !.tier = t, !.confidence = c]] :
            t \in Tiers, c \in Confidences}

\* the server after the turn of "Who am I?" on an empty store has ended its
\* response and called processMemoryAsync
InitEnforce ==
  /\ now = 0
  /\ nextId = 1
  /\ memory_units = << >>
  /\ preferences = << >>
  /\ entities = << >>
  /\ nextEnt = 1
  /\ memory_relations = {}
  /\ contradictions = << >>
  /\ tx = [s \in Slots |-> IdleTx]
  /\ rc = IdleRc
  /\ rt = IdleRt
  /\ turn = [IdleTurn EXCEPT !.n = 1, !.msg = "Who am I?", !.conversationId = "c1"]
  /\ res = [n \in Turns |->
              IF n = 1 THEN [NoResponse EXCEPT !.headers = TRUE, !.done = TRUE, !.ended = TRUE]
              ELSE NoResponse]
  /\ bg = [n \in Turns |->
             IF n = 1 THEN [IdleBg EXCEPT !.pc = "extract", !.msg = "Who am I?",
                                          !.conversationId = "c1"]
             ELSE IdleBg]
  /\ mg = IdleMg
  /\ decay_log = << >>
  /\ embedder = EmbedderUnloaded
  /\ fn = IdleFn

\* runMemoryAgent of that turn, whatever the extractors answer
NextEnforce ==
  \/ \E n \in Turns, local \in BOOLEAN : RunMemoryAgent(n, local)
  \/ \E n \in Turns, reply \in TieredReplies : RunLocalMemoryAgent(n, reply)
  \/ \E n \in Turns, reply \in TieredReplies : RunCloudMemoryAgent(n, reply)

SpecEnforce == InitEnforce /\ [][NextEnforce]_vars

\* c clamped into [floor(tier), ceiling(tier)]
Clamped(tier, c) == Min(Max(c, TierFloor(tier)), TierCeiling(tier))

\* C30: enforce(tier, enforce(tier, c)) = enforce(tier, c) for every tier and
\* every c in [0,1], and enforce(tier, c) is c clamped into [floor(tier),
\* ceiling(tier)]; so is the confidence of every payload that
\* parseMemoryAgentResponse hands on.
EnforceIdempotentClamp ==
  /\ \A tier \in Tiers, c \in Confidences :
       /\ EnforceConfidenceBounds(tier, c) = Clamped(tier, c)
       /\ EnforceConfidenceBounds(tier, EnforceConfidenceBounds(tier, c))
            = EnforceConfidenceBounds(tier, c)
  /\ \A n \in Turns :
       bg[n].pc = "store" =>
         /\ bg[n].mem.confidence = Clamped(bg[n].mem.tier, bg[n].raw)
         /\ EnforceConfidenceBounds(bg[n].mem.tier, bg[n].mem.confidence) = bg[n].mem.confidence

\* C30, witness: the extractor returned a hypothesis with confidence 0.9 and
\* the payload handed on carries the ceiling 0.5
EnforceIdempotentClampWitness ==
  \E n \in Turns :
    /\ bg[n].pc = "store"
    /\ bg[n].mem.tier = "hypothesis"
    /\ bg[n].raw = 90
    /\ bg[n].mem.confidence = 50

\* ------------------------------------------------------------------------
\* Tier classification (beliefTiering.js classifyTier)
\* ------------------------------------------------------------------------
\* the longest text, in words
MaxWords == 5

\* the calls of classifyTier made on one text
MaxClassifyCalls == 2

\* the words a text is made of, separated by single spaces
Words == {"I", "think", "today", "like", "am", "I'm", "from", "Greece"}

Texts == UNION {[1..n -> Words] : n \in 0..MaxWords}

\* text.toLowerCase(), word by word
LowerWord(w) ==
  CASE w = "I" -> "i"
    [] w = "I'm" -> "i'm"
    [] w = "Greece" -> "greece"
    [] OTHER -> w

ToLowerCase(text) == [i \in DOMAIN text |-> LowerWord(text[i])]

\* pattern.test(text) for a pattern /\bw1 w2 ...\b/i: the words of the
\* pattern stand next to each other in the text
Test(pattern, text) ==
  \E i \in 0..(Len(text) - Len(pattern)) :
    \A j \in DOMAIN pattern : text[i + j] = pattern[j]

TestAny(patterns, text) == \E pattern \in patterns : Test(pattern, text)

hedgePatterns ==
  {<<"i", "think">>, <<"maybe">>, <<"probably">>, <<"might">>, <<"not", "sure">>,
   <<"i", "guess">>, <<"perhaps">>, <<"seems", "like">>}

temporaryPatterns ==
  {<<"right", "now">>, <<"currently">>, <<"at", "the", "moment">>, <<"today">>,
   <<"this", "week">>, <<"temporarily">>}

preferencePatterns ==
  {<<"i", v>> : v \in {"like", "love", "enjoy", "prefer"}}
    \cup {<<"i", "really", v>> : v \in {"like", "love", "enjoy", "prefer"}}
    \cup {<<"i", "hate">>, <<"i", "dislike">>, <<"i", "don't", "like">>, <<"i", "can't", "stand">>}
    \cup {<<"my", "favorite">>, <<"i'm", "a", "fan", "of">>, <<"i'm", "not", "a", "fan", "of">>}

assertionPatterns ==
  {<<"i", "am">>, <<"my", "name", "is">>, <<"i", "have">>, <<"i", "work", "at">>,
   <<"i", "work", "for">>, <<"i", "work", "as">>, <<"i", "live", "in">>, <<"i'm", "from">>,
   <<"i", "was", "born">>}

\* classifyTier with the assertion patterns tried before the hedging ones
ClassifyTierAssertionFirst(text) ==
  LET lowerText == ToLowerCase(text)
  IN IF TestAny(assertionPatterns, lowerText) THEN [tier |-> "asserted_fact", confidence |-> 92]
     ELSE IF TestAny(hedgePatterns, lowerText) THEN [tier |-> "hypothesis", confidence |-> 45]
     ELSE IF TestAny(temporaryPatterns, lowerText)
       THEN [tier |-> "temporary_context", confidence |-> 40]
     ELSE IF TestAny(preferencePatterns, lowerText) THEN [tier |-> "preference", confidence |-> 80]
     ELSE [tier |-> "observed_fact", confidence |-> 80]

\* classifyTier(text); confidences in hundredths
ClassifyTier(text) ==
  LET lowerText == ToLowerCase(text)
  IN IF TestAny(hedgePatterns, lowerText) THEN [tier |-> "hypothesis", confidence |-> 45]
     ELSE IF TestAny(temporaryPatterns, lowerText)
       THEN [tier |-> "temporary_context", confidence |-> 40]
     ELSE IF TestAny(preferencePatterns, lowerText) THEN [tier |-> "preference", confidence |-> 80]
     ELSE IF TestAny(assertionPatterns, lowerText)
       THEN [tier |-> "asserted_fact", confidence |-> 92]
     ELSE [tier |-> "observed_fact", confidence |-> 80]

\* an empty database after schema.sql and a server with nothing in flight
EmptyServer ==
  /\ now = 0
  /\ nextId = 1
  /\ memory_units = << >>
  /\ preferences = << >>
  /\ entities = << >>
  /\ nextEnt = 1
  /\ memory_relations = {}
  /\ contradictions = << >>
  /\ tx = [s \in Slots |-> IdleTx]
  /\ rc = IdleRc
  /\ rt = IdleRt
  /\ turn = IdleTurn
  /\ res = [n \in Turns |-> NoResponse]
  /\ bg = [n \in Turns |-> IdleBg]
  /\ mg = IdleMg
  /\ decay_log = << >>
  /\ embedder = EmbedderUnloaded

\* a caller holds a text
InitClassify ==
  /\ EmptyServer
  /\ \E text \in Texts : fn = [op |-> "classifyTier", args |-> <<text>>, out |-> << >>]

\* one call of classifyTier on the text, its result kept after the earlier ones
ClassifyTierCall ==
  /\ fn.op = "classifyTier"
  /\ Len(fn.out) < MaxClassifyCalls
  /\ fn' = [fn EXCEPT !.out = Append(@, ClassifyTier(fn.args[1]))]
  /\ UNCHANGED <<now, nextId, memory_units, preferences, entities, nextEnt, memory_relations,
                 contradictions, tx, rc, rt, turn, res, bg, mg, decay_log, embedder>>

NextClassify == ClassifyTierCall

SpecClassify == InitClassify /\ [][NextClassify]_vars

\* the pattern families in the order of the classification, each with the
\* tier and confidence it stands for; the last one matches every text
ClassificationOrder ==
  <<[patterns |-> hedgePatterns, tier |-> "hypothesis", confidence |-> 45],
    [patterns |-> temporaryPatterns, tier |-> "temporary_context", confidence |-> 40],
    [patterns |-> preferencePatterns, tier |-> "preference", confidence |-> 80],
    [patterns |-> assertionPatterns, tier |-> "asserted_fact", confidence |-> 92],
    [patterns |-> {<< >>}, tier |-> "observed_fact", confidence |-> 80]>>

\* the first family of the order that has a pattern in the text
FirstMatch(text) ==
  LET hit == {i \in DOMAIN ClassificationOrder :
                TestAny(ClassificationOrder[i].patterns, ToLowerCase(text))}
      i == CHOOSE i \in hit : \A j \in hit : i <= j
  IN [tier |-> ClassificationOrder[i].tier, confidence |-> ClassificationOrder[i].confidence]

\* C31: classifyTier returns the tier and confidence of the first matching
\* family in the order hedging, temporal, preference, assertion, default; a
\* text with a hedging marker is a hypothesis of confidence <= 0.50 whatever
\* else it matches, two calls on one text return the same, and the confidence
\* returned lies within the bounds of its tier.
ClassificationFirstMatch ==
  fn.op = "classifyTier" =>
    \A i \in DOMAIN fn.out :
      /\ fn.out[i] = FirstMatch(fn.args[1])
      /\ TestAny(hedgePatterns, ToLowerCase(fn.args[1]))
           => fn.out[i].tier = "hypothesis" /\ fn.out[i].confidence <= 50
      /\ fn.out[i] = fn.out[1]
      /\ fn.out[i].tier \in Tiers
      /\ fn.out[i].confidence >= TierFloor(fn.out[i].tier)
      /\ fn.out[i].confidence <= TierCeiling(fn.out[i].tier)
      /\ EnforceConfidenceBounds(fn.out[i].tier, fn.out[i].confidence) = fn.out[i].confidence

\* C31, witness: "I think I'm from Greece" classified twice, a hypothesis of
\* confidence 0.45 both times although "I'm from" is an assertion pattern
ClassificationFirstMatchWitness ==
  /\ fn.op = "classifyTier"
  /\ fn.args[1] = <<"I", "think", "I'm", "from", "Greece">>
  /\ TestAny(assertionPatterns, ToLowerCase(fn.args[1]))
  /\ Len(fn.out) = 2
  /\ fn.out[2] = [tier |-> "hypothesis", confidence |-> 45]

\* ------------------------------------------------------------------------
\* The resolution rules (contradictionDetector.js determineResolution)
\* ------------------------------------------------------------------------
\* StructuredFactSchema.temporal, and "none" for a memory compared without a
\* fact (newFact = null)
Temporals == {"current", "past", "future", "unknown", "none"}

\* the tier and confidence a memory can carry: any tier with any confidence
\* of the grid brought within the bounds of the tier
TieredConfidences ==
  {[tier |-> t, confidence |-> EnforceConfidenceBounds(t, c)] : t \in Tiers, c \in Confidences}

\* analyzeConflict has a new and an existing memory and a pair of their facts
InitResolution ==
  /\ EmptyServer
  /\ \E new \in TieredConfidences, ex \in TieredConfidences, nt \in Temporals, et \in Temporals :
       fn = [op |-> "determineResolution",
             args |-> <<new.tier, new.confidence, ex.tier, ex.confidence, nt, et>>,
             out |-> << >>]

\* result.resolution = determineResolution(newMemory, existingMemory, ...)
DetermineResolutionCall ==
  /\ fn.op = "determineResolution"
  /\ fn.out = << >>
  /\ fn' = [fn EXCEPT !.out = <<DetermineResolution(fn.args[1], fn.args[2], fn.args[3],
                                                    fn.args[4], fn.args[5], fn.args[6])>>]
  /\ UNCHANGED <<now, nextId, memory_units, preferences, entities, nextEnt, memory_relations,
                 contradictions, tx, rc, rt, turn, res, bg, mg, decay_log, embedder>>

NextResolution == DetermineResolutionCall

SpecResolution == InitResolution /\ [][NextResolution]_vars

\* the temporal rule applies to the call
TemporalRule == fn.args[5] = "current" /\ fn.args[6] = "past"

ContradictionRecorded(rows, a, b) ==
  \E i \in DOMAIN rows : {rows[i].memory_a, rows[i].memory_b} = {a, b}

\* of the new memory and the existing one, exactly the one the resolution
\* names as the loser is inactive
LoserInactive(rows, action, new, existing) ==
  \/ action = "a_supersedes" /\ rows[new].is_active /\ ~rows[existing].is_active
  \/ action = "b_supersedes" /\ ~rows[new].is_active /\ rows[existing].is_active

\* C33: for every conflict detection returned during insertMemoryUnit
\* (a_supersedes, b_supersedes or pending), when the insert commits either
\* exactly one of the two memories is inactive, the loser named by the
\* resolution, or a contradiction row records the pair; the two are never
\* both left active without a contradiction row.
ConflictsAccounted ==
  [][\A s \in Slots :
       (tx[s].pc = "commit" /\ tx'[s].pc = "done" /\ tx'[s].result = "ok") =>
         \A c \in tx[s].conflicts :
           \/ LoserInactive(memory_units', c.action, tx[s].id, c.existing)
           \/ ContradictionRecorded(contradictions', tx[s].id, c.existing)]_vars

\* "I love coffee" arrived after the extractor had stored the assertion that
\* the user dislikes coffee: detection returned b_supersedes for the pair and
\* the committed insert left both memories active, with no contradiction row
ExistingOutranksIgnored ==
  \E s \in Slots :
    /\ tx[s].pc = "done" /\ tx[s].result = "ok"
    /\ \E c \in tx[s].conflicts :
         /\ c.action = "b_supersedes"
         /\ GetTierPriority(memory_units[c.existing].tier) > GetTierPriority(tx[s].mem.tier)
         /\ memory_units[tx[s].id].is_active
         /\ memory_units[c.existing].is_active
         /\ ~ContradictionRecorded(contradictions, tx[s].id, c.existing)

\* C34: a contradiction starts as pending; once its resolution is not
\* pending no later resolve call changes its resolution or resolved_at or
\* deactivates a further memory, so that at most one of its two memories is
\* ever deactivated by resolution; resolved_at is set only on a row whose
\* resolution is not pending.
ResolutionTerminal ==
  [][/\ \A i \in DOMAIN contradictions' \ DOMAIN contradictions :
          contradictions'[i].resolution = "pending"
     /\ \A i \in DOMAIN contradictions :
          /\ contradictions[i].resolution # "pending"
               => /\ contradictions'[i].resolution = contradictions[i].resolution
                  /\ contradictions'[i].resolved_at = contradictions[i].resolved_at
          /\ contradictions'[i].resolved_at # NoTime
               => contradictions'[i].resolution # "pending"
          /\ \/ memory_units'[contradictions[i].memory_a].is_active
             \/ memory_units'[contradictions[i].memory_b].is_active]_vars

\* a contradiction resolved as a_supersedes and then as b_supersedes: both of
\* its memories are inactive
BothSidesDeactivated ==
  /\ rc.pc = "idle"
  /\ \E i \in DOMAIN contradictions :
       /\ contradictions[i].resolution = "b_supersedes"
       /\ ~memory_units[contradictions[i].memory_a].is_active
       /\ ~memory_units[contradictions[i].memory_b].is_active

\* ------------------------------------------------------------------------
\* Names asserted one after the other over a store that holds identity
\* memories
\* ------------------------------------------------------------------------
\* the store after "My name is Costa" went through the instant extractor
\* MaxCrowd times: no insert found a conflict, every row is active
CrowdedStore ==
  /\ memory_units = [i \in 1..MaxCrowd |-> StoredAt(i, InstantNameMem("Costa"), 0)]
  /\ entities = <<[canonical_name |-> "Costa", aliases |-> {}, memory_ids |-> 1..MaxCrowd]>>
  /\ nextEnt = 2

\* the store after MaxCrowd - 2 times "My name is Costa" and then "My name is
\* Alex" and "My name is Costa" in two requests at once: the insert of Alex
\* superseded the rows it saw, the insert of Costa saw no other name, and
\* both committed
RacedStore ==
  /\ memory_units =
       [i \in 1..MaxCrowd |->
          IF i < MaxCrowd - 1
            THEN [StoredAt(i, InstantNameMem("Costa"), 0) EXCEPT !.is_active = FALSE]
          ELSE IF i = MaxCrowd - 1
            THEN [StoredAt(i, InstantNameMem("Alex"), 0) EXCEPT !.supersedes = 1..(MaxCrowd - 2)]
          ELSE StoredAt(i, InstantNameMem("Costa"), 0)]
  /\ entities = <<[canonical_name |-> "Costa", aliases |-> {},
                   memory_ids |-> (1..MaxCrowd) \ {MaxCrowd - 1}],
                  [canonical_name |-> "Alex", aliases |-> {}, memory_ids |-> {MaxCrowd - 1}]>>
  /\ nextEnt = 3

InitIdentity ==
  /\ now = 0
  /\ nextId = MaxCrowd + 1
  /\ CrowdedStore \/ RacedStore
  /\ preferences = << >>
  /\ memory_relations = {}
  /\ contradictions = << >>
  /\ tx = [s \in Slots |-> IdleTx]
  /\ rc = IdleRc
  /\ rt = IdleRt
  /\ turn = IdleTurn
  /\ res = [n \in Turns |-> NoResponse]
  /\ bg = [n \in Turns |-> IdleBg]
  /\ mg = IdleMg
  /\ decay_log = << >>
  /\ embedder = EmbedderUnloaded
  /\ fn = IdleFn

\* the names the instant extractor stores
IdentityWrites == {InstantNameMem("Costa"), InstantNameMem("Alex")}

\* extractAndStoreInstant of one request after the other, each insert run to
\* its end before the next begins
NextIdentity ==
  \/ \E s \in ApiSlots, p \in IdentityWrites : InsertMemoryUnit(s, "instant", p)
  \/ \E s \in ApiSlots : EmbedText(s)
  \/ \E s \in ApiSlots : EmbedTextFails(s)
  \/ \E s \in ApiSlots : DetectIdentity(s)
  \/ \E s \in ApiSlots : DetectSimilar(s)
  \/ \E s \in ApiSlots : InsertRow(s)
  \/ \E s \in ApiSlots : DeactivateSuperseded(s)
  \/ \E s \in ApiSlots : EntFind(s)
  \/ \E s \in ApiSlots : EntWrite(s)
  \/ \E s \in ApiSlots : LinkEntity(s)
  \/ \E s \in ApiSlots : DiscoverRelations(s)
  \/ \E s \in ApiSlots : Commit(s)
  \/ \E s \in ApiSlots : CommitFails(s)
  \/ \E s \in ApiSlots : Return(s)

SpecIdentity == InitIdentity /\ [][NextIdentity]_vars

\* the active rows of a table of memories that assert a user name other than
\* name
OtherNamesActive(rows, name) ==
  {m \in DOMAIN rows :
     /\ rows[m].is_active
     /\ ExtractUserName(rows[m].summary) # "none"
     /\ Lower(ExtractUserName(rows[m].summary)) # Lower(name)}

\* C35: when an insert asserting user name N commits, no active memory
\* asserts a different user name, however many identity memories the store
\* held before (more than 5 of the old name included), and also when two
\* conflicting names were active before the insert.
SingleActiveIdentity ==
  [][\A s \in Slots :
       (/\ tx[s].pc = "commit" /\ tx'[s].pc = "done" /\ tx'[s].result = "ok"
        /\ ExtractUserName(tx[s].mem.summary) # "none")
         => OtherNamesActive(memory_units', ExtractUserName(tx[s].mem.summary)) = {}]_vars

\* "My name is Alex" committed over the crowded store: the oldest memory of
\* the name Costa is still active next to the new one
OldNameStaysActive ==
  \E s \in Slots :
    /\ tx[s].pc = "done" /\ tx[s].result = "ok"
    /\ ExtractUserName(tx[s].mem.summary) = "Alex"
    /\ Cardinality(tx[s].mem.supersedes) = IDENTITY_LIMIT
    /\ memory_units[tx[s].id].is_active
    /\ memory_units[1].is_active
    /\ memory_units[1].summary = NameCosta

\* "My name is Alex" committed over the store the race left: no memory of the
\* name Costa is active any more
RaceRepaired ==
  \E s \in Slots :
    /\ tx[s].pc = "done" /\ tx[s].result = "ok"
    /\ ExtractUserName(tx[s].mem.summary) = "Alex"
    /\ ~memory_units[1].is_active
    /\ OtherNamesActive(memory_units, "Alex") = {}

\* ------------------------------------------------------------------------
\* The preferences handed to the response generator
\* ------------------------------------------------------------------------
\* getUserPreferences({}): SELECT * FROM preferences WHERE is_active = true
GetUserPreferences == {i \in DOMAIN preferences : preferences[i].is_active}

\* C36: in every reachable state every preference row getUserPreferences
\* returns is linked to a memory that is active: the rows of a memory that
\* was superseded, archived or deactivated are not returned.
PreferencesFollowMemory ==
  \A i \in GetUserPreferences :
    /\ preferences[i].memory_id \in MemIds
    /\ memory_units[preferences[i].memory_id].is_active

\* the memory "User likes coffee." is inactive and its preference row is
\* among those getUserPreferences returns
StalePreferenceReturned ==
  \E i \in GetUserPreferences :
    /\ preferences[i].memory_id \in MemIds
    /\ ~memory_units[preferences[i].memory_id].is_active
    /\ memory_units[preferences[i].memory_id].summary = LikesCoffee

\* ------------------------------------------------------------------------
\* Retrievals at the same time (memoryStore.js retrieveMemories called by
\* several requests), with an insert and the decay sweep
\* ------------------------------------------------------------------------
\* the requests that call retrieveMemories
RtCallers == {1, 2}

\* a request that has not called yet
IdleRetrieval == [pc |-> "idle", ids |-> {}]

\* the store after "My name is Costa" went through the instant extractor on
\* day 0; the requests are about to ask "Who am I?"
InitReinforce ==
  /\ now = 0
  /\ nextId = 2
  /\ memory_units = <<StoredAt(1, InstantNameMem("Costa"), 0)>>
  /\ preferences = << >>
  /\ entities = <<[canonical_name |-> "Costa", aliases |-> {}, memory_ids |-> {1}]>>
  /\ nextEnt = 2
  /\ memory_relations = {}
  /\ contradictions = << >>
  /\ tx = [s \in Slots |-> IdleTx]
  /\ rc = IdleRc
  /\ rt = IdleRt
  /\ turn = IdleTurn
  /\ res = [n \in Turns |-> NoResponse]
  /\ bg = [n \in Turns |-> IdleBg]
  /\ mg = IdleMg
  /\ decay_log = << >>
  /\ embedder = EmbedderUnloaded
  /\ fn = [op |-> "retrieveMemories", args |-> <<"Who am I?">>,
           out |-> [c \in RtCallers |-> IdleRetrieval]]

\* retrieveMemories of request c, first await: the query; with no memory
\* found it returns at once
RetrieveBy(c) ==
  /\ fn.op = "retrieveMemories"
  /\ fn.out[c].pc = "idle"
  /\ LET memories == RetrieveWithSpreadingActivation(fn.args[1], RETRIEVAL_K)
     IN fn' = [fn EXCEPT !.out[c] = [pc |-> IF memories = {} THEN "done" ELSE "reinforce",
                                     ids |-> memories]]
  /\ UNCHANGED <<now, nextId, memory_units, preferences, entities, nextEnt, memory_relations,
                 contradictions, tx, rc, rt, turn, res, bg, mg, decay_log, embedder>>

\* retrieveMemories of request c, second await: reinforceMemories(ids), one
\* UPDATE that waits for the rows an open transaction holds; then it returns
\* the memories
ReinforceBy(c) ==
  /\ fn.op = "retrieveMemories"
  /\ fn.out[c].pc = "reinforce"
  /\ fn.out[c].ids \cap Locked = {}
  /\ memory_units' = ReinforcedRows(fn.out[c].ids)
  /\ fn' = [fn EXCEPT !.out[c].pc = "done"]
  /\ UNCHANGED <<now, nextId, preferences, entities, nextEnt, memory_relations,
                 contradictions, tx, rc, rt, turn, res, bg, mg, decay_log, embedder>>

\* the UPDATE of request c is aborted (lost connection, deadlock victim):
\* retrieveMemories rejects and returns no memory
ReinforceFailsFor(c) ==
  /\ fn.op = "retrieveMemories"
  /\ fn.out[c].pc = "reinforce"
  /\ fn' = [fn EXCEPT !.out[c] = [pc |-> "failed", ids |-> {}]]
  /\ UNCHANGED <<now, nextId, memory_units, preferences, entities, nextEnt, memory_relations,
                 contradictions, tx, rc, rt, turn, res, bg, mg, decay_log, embedder>>

\* the requests, the insert of a name by the instant extractor, the decay
\* sweep and the clock
NextReinforce ==
  \/ \E c \in RtCallers : RetrieveBy(c)
  \/ \E c \in RtCallers : ReinforceBy(c)
  \/ \E c \in RtCallers : ReinforceFailsFor(c)
  \/ RunDecayUpdate
  \/ AdvanceTime(ArchiveStep)
  \/ \E s \in ApiSlots, p \in IdentityWrites : InsertMemoryUnit(s, "instant", p)
  \/ \E s \in ApiSlots : EmbedText(s)
  \/ \E s \in ApiSlots : EmbedTextFails(s)
  \/ \E s \in ApiSlots : DetectIdentity(s)
  \/ \E s \in ApiSlots : DetectSimilar(s)
  \/ \E s \in ApiSlots : InsertRow(s)
  \/ \E s \in ApiSlots : DeactivateSuperseded(s)
  \/ \E s \in ApiSlots : EntFind(s)
  \/ \E s \in ApiSlots : EntWrite(s)
  \/ \E s \in ApiSlots : LinkEntity(s)
  \/ \E s \in ApiSlots : DiscoverRelations(s)
  \/ \E s \in ApiSlots : Commit(s)
  \/ \E s \in ApiSlots : CommitFails(s)
  \/ \E s \in ApiSlots : Return(s)

SpecReinforce == InitReinforce /\ [][NextReinforce]_vars

\* the requests whose retrieveMemories returned memory m
ReturnedBy(m) == {c \in RtCallers : fn.out[c].pc = "done" /\ m \in fn.out[c].ids}

\* C37: when n retrievals run at the same time, in any interleaving with
\* each other, with an insert and with the decay sweep, and each returns
\* memory M, access_count of M is exactly n higher than before; the decay
\* sweep never resets access_count or last_accessed_at.
NoLostReinforcement ==
  /\ [](fn.op = "retrieveMemories" =>
          \A m \in MemIds : memory_units[m].access_count = Cardinality(ReturnedBy(m)))
  /\ [][RunDecayUpdate =>
          \A m \in MemIds :
            /\ memory_units'[m].access_count = memory_units[m].access_count
            /\ memory_units'[m].last_accessed_at = memory_units[m].last_accessed_at]_vars

\* C37, witness: both requests returned memory 1 on day 0 and a decay sweep
\* of a later day ran over it, before "My name is Alex" superseded it:
\* access_count is 2 and last_accessed_at is still day 0
NoLostReinforcementWitness ==
  /\ fn.op = "retrieveMemories"
  /\ ReturnedBy(1) = RtCallers
  /\ memory_units[1].access_count = 2
  /\ memory_units[1].last_accessed_at = 0
  /\ memory_units[1].last_decay_at > 0
  /\ ~memory_units[1].is_active

\* ------------------------------------------------------------------------
\* The terminal event of a /chat response (SpecTurn)
\* ------------------------------------------------------------------------
\* C38: single terminal stream event: a response whose headers were sent and
\* that has ended carries exactly one of the done and error events; once
\* either event is written no chunk and no other event follows, and once the
\* response has ended nothing of it changes; a turn that wrote the error
\* event never starts its background work; and no step of the background
\* work, failing or not, writes to any response.
SingleTerminalEvent ==
  /\ [](\A n \in Turns :
          /\ res[n].ended => (res[n].headers /\ (res[n].done # res[n].error))
          /\ ~(res[n].done /\ res[n].error)
          /\ res[n].error => bg[n].pc = "idle")
  /\ [][\A n \in Turns :
          /\ (res[n].done \/ res[n].error)
               => /\ res'[n].chunks = res[n].chunks
                  /\ res'[n].done = res[n].done
                  /\ res'[n].error = res[n].error
          /\ res[n].ended => res'[n] = res[n]
          /\ (bg[n].pc # "idle" /\ bg'[n] # bg[n]) => res' = res]_vars

\* the first response forwarded a chunk, then failed and ended with the error
\* event alone; the second ended with done, and its background work is over
\* while the response stands as it ended
SingleTerminalEventWitness ==
  /\ res[1].chunks > 0 /\ res[1].error /\ res[1].ended /\ ~res[1].done
  /\ bg[1].pc = "idle"
  /\ res[2].done /\ res[2].ended /\ ~res[2].error
  /\ bg[2].pc = "finished"

\* ------------------------------------------------------------------------
\* spreadActivation, call by call, over relation graphs
\* ------------------------------------------------------------------------
\* the memories of the store the graphs are drawn over
MaxSpreadMem == 4

\* the rows memory_relations holds when spreading starts
MaxEdges == 3

\* the depths a caller of retrieveWithSpreadingActivation passes
MaxDepth == 3

\* the decay factor is kept in units of 2^-16, in which the squares of the
\* default 0.5 are exact
DecayUnit == 65536

\* the relation graphs: rows (source_id, target_id, relation_type) unique,
\* directed or bidirectional, cycles included
SpreadEdges ==
  {[source_id |-> x[1], target_id |-> x[2], relation_type |-> "related_to",
    weight |-> 80, bidirectional |-> d] :
      x \in {y \in (1..MaxSpreadMem) \X (1..MaxSpreadMem) : y[1] # y[2]}, d \in BOOLEAN}

RECURSIVE GraphsUpTo(_)
\* the sets of at most n rows
GraphsUpTo(n) ==
  IF n = 0 THEN {{}}
  ELSE LET smaller == GraphsUpTo(n - 1)
       IN smaller \cup {g \cup {e} : g \in smaller, e \in SpreadEdges}

SpreadGraphs ==
  {g \in GraphsUpTo(MaxEdges) :
     \A r, s \in g : (r.source_id = s.source_id /\ r.target_id = s.target_id) => r = s}

\* the store after MaxSpreadMem times "My name is Costa", with a graph of
\* relations between the memories
InitSpread ==
  /\ now = 0
  /\ nextId = MaxSpreadMem + 1
  /\ memory_units = [i \in 1..MaxSpreadMem |-> StoredAt(i, InstantNameMem("Costa"), 0)]
  /\ preferences = << >>
  /\ entities = <<[canonical_name |-> "Costa", aliases |-> {}, memory_ids |-> 1..MaxSpreadMem]>>
  /\ nextEnt = 2
  /\ memory_relations \in SpreadGraphs
  /\ contradictions = << >>
  /\ tx = [s \in Slots |-> IdleTx]
  /\ rc = IdleRc
  /\ rt = IdleRt
  /\ turn = IdleTurn
  /\ res = [n \in Turns |-> NoResponse]
  /\ bg = [n \in Turns |-> IdleBg]
  /\ mg = IdleMg
  /\ decay_log = << >>
  /\ embedder = EmbedderUnloaded
  /\ fn = IdleFn

\* newIds without the scoreMap.has test: every memory the join returned
NewIdsEveryRow(rows, present) == {x[2] : x \in rows}

\* newIds: the memories of the join's rows that the score map does not hold
NewIds(rows, present) == {x[2] : x \in rows} \ present

\* decay * decay
DecaySquared(decay) == (decay * decay) \div DecayUnit

\* retrieveWithSpreadingActivation, step 3: the direct rows (LIMIT 2k, here
\* k = 1) are put in the score map and spreadActivation is called with them
\* when depth > 0
SpreadCall(directIds, depth) ==
  /\ fn.op = "idle"
  /\ depth > 0
  /\ directIds \subseteq ActiveIds
  /\ fn' = [op |-> "spreadActivation",
            args |-> <<directIds, depth, (SPREADING_DECAY * DecayUnit) \div 100>>,
            out |-> [present |-> directIds, levels |-> << >>]]
  /\ UNCHANGED <<now, nextId, memory_units, preferences, entities, nextEnt, memory_relations,
                 contradictions, tx, rc, rt, turn, res, bg, mg, decay_log, embedder>>

\* spreadActivation entered with depth <= 0 or no source: it returns
SpreadReturns ==
  /\ fn.op = "spreadActivation"
  /\ (fn.args[2] <= 0 \/ fn.args[1] = {})
  /\ fn' = [fn EXCEPT !.op = "returned"]
  /\ UNCHANGED <<now, nextId, memory_units, preferences, entities, nextEnt, memory_relations,
                 contradictions, tx, rc, rt, turn, res, bg, mg, decay_log, embedder>>

\* one level of spreadActivation: the join over the sources, the loop over
\* its rows, and the recursive call with newIds, depth - 1 and decay * decay
\* when newIds is not empty
SpreadLevel ==
  /\ fn.op = "spreadActivation"
  /\ fn.args[2] > 0 /\ fn.args[1] # {}
  /\ LET rows == SpreadRows(fn.args[1])
         newIds == NewIds(rows, fn.out.present)
         level == [sourceIds |-> fn.args[1], depth |-> fn.args[2], decay |-> fn.args[3]]
         out == [present |-> fn.out.present \cup {x[2] : x \in rows},
                 levels |-> Append(fn.out.levels, level)]
     IN fn' = IF newIds # {}
              THEN [op |-> "spreadActivation",
                    args |-> <<newIds, fn.args[2] - 1, DecaySquared(fn.args[3])>>,
                    out |-> out]
              ELSE [fn EXCEPT !.op = "returned", !.out = out]
  /\ UNCHANGED <<now, nextId, memory_units, preferences, entities, nextEnt, memory_relations,
                 contradictions, tx, rc, rt, turn, res, bg, mg, decay_log, embedder>>

NextSpread ==
  \/ \E directIds \in SUBSET (1..MaxSpreadMem), depth \in 1..MaxDepth :
        Cardinality(directIds) = 2 /\ SpreadCall(directIds, depth)
  \/ SpreadLevel
  \/ SpreadReturns

\* every await of spreadActivation resolves: a level that can run does run
SpecSpread ==
  InitSpread /\ [][NextSpread]_vars /\ WF_vars(SpreadLevel) /\ WF_vars(SpreadReturns)

\* C39: spreading activation terminates: a call of spreadActivation returns,
\* whatever the relation graph; it runs at most depth levels, the depth going
\* down by one from level to level; no memory is among the sources of two
\* levels; and the factor of a level is the square of the factor of the level
\* before it, 0.5 then 0.25 for the defaults.
SpreadingTerminates ==
  /\ (fn.op = "spreadActivation") ~> (fn.op = "returned")
  /\ [](fn.op \in {"spreadActivation", "returned"} =>
          LET levels == fn.out.levels
          IN /\ levels # << >> => Len(levels) <= levels[1].depth
             /\ \A i \in 1..Len(levels) :
                  /\ levels[i].depth = levels[1].depth - (i - 1)
                  /\ levels[i].depth > 0
                  /\ i = 1 => levels[i].decay * 2 = DecayUnit
                  /\ i = 2 => levels[i].decay * 4 = DecayUnit
                  /\ i > 1 => levels[i].decay * DecayUnit
                                = levels[i - 1].decay * levels[i - 1].decay
             /\ \A i, j \in 1..Len(levels) :
                  i # j => levels[i].sourceIds \cap levels[j].sourceIds = {})

\* a call with depth 3 over a graph with a cycle back to a direct memory and
\* a bidirectional relation has returned after three levels, the third with
\* factor 0.0625, having reached every memory
SpreadingTerminatesWitness ==
  /\ fn.op = "returned"
  /\ Len(fn.out.levels) = 3
  /\ fn.out.levels[1].depth = 3
  /\ fn.out.levels[3].decay * 16 = DecayUnit
  /\ fn.out.present = 1..MaxSpreadMem
  /\ \E r \in memory_relations :
       /\ r.target_id \in fn.out.levels[1].sourceIds
       /\ r.source_id \in fn.out.levels[2].sourceIds
  /\ \E r \in memory_relations : r.bidirectional

\* ------------------------------------------------------------------------
\* parseMemoryAgentResponse on the content of an extractor response
\* (memoryAgent.js sanitizeLLMResponse, MemoryAgentSchema, runCloudMemoryAgent)
\* ------------------------------------------------------------------------
\* JSON null, or a field the response leaves out
JsonNull == 0 - 1000

\* the numbers a response may carry: confidence and strength in hundredths
RawConfidences == {JsonNull, 0 - 10, 0, 80, 100, 150}

RawImportances == {JsonNull, 0, 1, 5, 10, 11}

RawStrengths == {JsonNull, 0 - 50, 50, 150}

\* the JSON an extractor response parses to: a payload valid in every field
\* but, possibly, these numbers
RawPayloads ==
  {[should_write |-> TRUE, summary |-> LikesCoffee, tier |-> t, confidence |-> c,
    importance |-> i,
    preferences |-> <<[entity |-> "coffee", valence |-> "positive", strength |-> s]>>] :
      t \in {"preference", "hypothesis"}, c \in RawConfidences, i \in RawImportances,
      s \in RawStrengths}

\* sanitizeLLMResponse(json): null importance becomes 5, null confidence 0.8;
\* a preference keeps its valence when it is one of the three and gets its
\* strength clamped into [0, 1], or 0.5 when it is not a number
SanitizeLLMResponse(json) ==
  [json EXCEPT
     !.importance = IF @ = JsonNull THEN 5 ELSE @,
     !.confidence = IF @ = JsonNull THEN 80 ELSE @,
     !.preferences =
        [k \in DOMAIN @ |->
           [entity |-> @[k].entity,
            valence |-> IF @[k].valence \in {"positive", "negative", "neutral"}
                        THEN @[k].valence ELSE "neutral",
            strength |-> IF @[k].strength = JsonNull THEN 50
                         ELSE Min(100, Max(0, @[k].strength))]]]

\* MemoryAgentSchema.safeParse(json).success
SafeParse(json) ==
  /\ json.should_write \in BOOLEAN
  /\ json.tier \in Tiers
  /\ json.confidence # JsonNull /\ json.confidence >= 0 /\ json.confidence <= 100
  /\ json.importance # JsonNull /\ json.importance >= 1 /\ json.importance <= 10
  /\ \A k \in DOMAIN json.preferences :
       /\ json.preferences[k].valence \in {"positive", "negative", "neutral"}
       /\ json.preferences[k].strength # JsonNull
       /\ json.preferences[k].strength >= 0 /\ json.preferences[k].strength <= 100

\* parseMemoryAgentResponse(content), after JSON.parse: {ok: true, data} with
\* the confidence brought within the bounds of the tier, or {ok: false}
ParseContent(json) ==
  LET clean == SanitizeLLMResponse(json)
  IN IF SafeParse(clean)
     THEN [ok |-> TRUE,
           data |-> [clean EXCEPT !.confidence = EnforceConfidenceBounds(clean.tier, @)]]
     ELSE [ok |-> FALSE, data |-> clean]

InitParse == EmptyServer /\ fn = IdleFn

\* runCloudMemoryAgent: the first request and the parse of its content; with
\* first.ok the data is returned, else the retry is due
CloudFirstResponse(json) ==
  /\ fn.op = "idle"
  /\ fn' = [op |-> "runCloudMemoryAgent", args |-> <<json>>,
            out |-> [calls |-> 1,
                     result |-> IF ParseContent(json).ok THEN "returned" ELSE "retry",
                     data |-> ParseContent(json).data]]
  /\ UNCHANGED <<now, nextId, memory_units, preferences, entities, nextEnt, memory_relations,
                 contradictions, tx, rc, rt, turn, res, bg, mg, decay_log, embedder>>

\* runCloudMemoryAgent: the retry request and the parse of its content; with
\* second.ok the data is returned, else the function throws
CloudRetryResponse(json) ==
  /\ fn.op = "runCloudMemoryAgent"
  /\ fn.out.result = "retry"
  /\ fn' = [op |-> "runCloudMemoryAgent", args |-> <<json>>,
            out |-> [calls |-> 2,
                     result |-> IF ParseContent(json).ok THEN "returned" ELSE "thrown",
                     data |-> ParseContent(json).data]]
  /\ UNCHANGED <<now, nextId, memory_units, preferences, entities, nextEnt, memory_relations,
                 contradictions, tx, rc, rt, turn, res, bg, mg, decay_log, embedder>>

NextParse ==
  \/ \E json \in RawPayloads : CloudFirstResponse(json)
  \/ \E json \in RawPayloads : CloudRetryResponse(json)

SpecParse == InitParse /\ [][NextParse]_vars

\* C40: sanitization clamps instead of rejecting: the first response of the
\* extractor, valid but for an importance outside [1, 10], a confidence
\* outside [0, 1] or a preference strength outside [0, 1], is accepted without
\* a retry, with the importance clamped into [1, 10], the confidence into
\* [0, 1] before the bounds of the tier, and the strength into [0, 1].
SanitizationClamps ==
  (fn.op = "runCloudMemoryAgent" /\ fn.out.calls = 1) =>
     LET json == fn.args[1]
         importance == IF json.importance = JsonNull THEN 5
                       ELSE Min(10, Max(1, json.importance))
         confidence == IF json.confidence = JsonNull THEN 80
                       ELSE Min(100, Max(0, json.confidence))
         strength == IF json.preferences[1].strength = JsonNull THEN 50
                     ELSE Min(100, Max(0, json.preferences[1].strength))
     IN /\ fn.out.result = "returned"
        /\ fn.out.data.importance = importance
        /\ fn.out.data.confidence = EnforceConfidenceBounds(json.tier, confidence)
        /\ fn.out.data.preferences[1].strength = strength

\* what the code does with its first response: the strength is clamped, the
\* payload is accepted exactly when importance and confidence, after the
\* defaults for null, are within the ranges of the schema, and is otherwise
\* rejected and the extractor asked again
SchemaRejectsOutOfRange ==
  (fn.op = "runCloudMemoryAgent" /\ fn.out.calls = 1) =>
     LET json == fn.args[1]
         inRange == /\ json.importance = JsonNull \/ json.importance \in 1..10
                    /\ json.confidence = JsonNull \/ json.confidence \in 0..100
     IN /\ fn.out.data.preferences[1].strength \in 0..100
        /\ (fn.out.result = "returned") = inRange
        /\ (fn.out.result = "retry") = ~inRange

\* an out-of-range strength alone was clamped and the payload accepted at once
StrengthClampedAccepted ==
  /\ fn.op = "runCloudMemoryAgent" /\ fn.out.calls = 1 /\ fn.out.result = "returned"
  /\ fn.args[1].preferences[1].strength = 150
  /\ fn.out.data.preferences[1].strength = 100

====
